---- MODULE Spec2Model ----
(***************************************************************************)
(* Key-centre analysis of MIDI_COMPOSE: the sliding-window key analyzer of *)
(* analysis/key_analysis.py (SlidingWindowKeyAnalyzer) over the document   *)
(* model of core/midi_data.py.                                             *)
(*                                                                         *)
(* Units.  Times are integers in ticks of 1/TicksPerSecond second.  Float  *)
(* confidences are fixed-point integers in units of 1/Scale.  Measure      *)
(* counts (base_window_measures, step_measures, ...) are integers in units *)
(* of 1/MeasureUnit measure.  A Pearson correlation is kept exactly, as    *)
(* the triple (numerator, profile_variance, template_variance), and is     *)
(* compared exactly with multi-limb integer arithmetic.                    *)
(***************************************************************************)
EXTENDS Integers, Sequences, FiniteSets, TLC

\* Python's None; the empty tuple compares with every tuple and record
None == <<>>

TicksPerSecond == 40
Scale == 10 * 100
MeasureUnit == 8

(***************************************************************************)
(* Integer helpers                                                         *)
(***************************************************************************)
\* a sequence given as a function, as an explicit tuple
Tup(f) == f \o <<>>

Max2(a, b) == IF a >= b THEN a ELSE b
Min2(a, b) == IF a <= b THEN a ELSE b
Abs(a) == IF a < 0 THEN -a ELSE a

RECURSIVE GCD(_, _)
GCD(a, b) == IF b = 0 THEN a ELSE GCD(b, a % b)

RECURSIVE SumSeq(_)
SumSeq(s) == IF s = <<>> THEN 0 ELSE Head(s) + SumSeq(Tail(s))

RECURSIVE GCDSeq(_)
GCDSeq(s) == IF s = <<>> THEN 0 ELSE GCD(Head(s), GCDSeq(Tail(s)))

(***************************************************************************)
(* Non-negative integers of any size: little-endian limbs in base Base.    *)
(* They carry the products of the correlation comparisons, which exceed    *)
(* the checker's machine integers.                                         *)
(***************************************************************************)
Base == 100 * 100

RECURSIVE BigOf(_)
BigOf(n) == IF n = 0 THEN <<>> ELSE <<n % Base>> \o BigOf(n \div Base)

BigGet(x, i) == IF i <= Len(x) THEN x[i] ELSE 0

RECURSIVE Conv(_, _, _, _)
Conv(x, y, k, i) ==
    IF i > k THEN 0
    ELSE BigGet(x, i) * BigGet(y, k + 1 - i) + Conv(x, y, k, i + 1)

RECURSIVE Carry(_, _, _)
Carry(raw, k, c) ==
    IF k > Len(raw)
    THEN BigOf(c)
    ELSE <<(raw[k] + c) % Base>> \o Carry(raw, k + 1, (raw[k] + c) \div Base)

BigMul(x, y) ==
    IF x = <<>> \/ y = <<>> THEN <<>>
    ELSE LET raw == Tup([k \in 1..(Len(x) + Len(y) - 1) |-> Conv(x, y, k, 1)])
         IN  Carry(raw, 1, 0)

RECURSIVE BigCmpAt(_, _, _)
BigCmpAt(x, y, k) ==
    IF k = 0 THEN 0
    ELSE IF BigGet(x, k) < BigGet(y, k) THEN -1
    ELSE IF BigGet(x, k) > BigGet(y, k) THEN 1
    ELSE BigCmpAt(x, y, k - 1)

\* -1, 0, 1 as x < y, x = y, x > y
BigCmp(x, y) == BigCmpAt(x, y, Max2(Len(x), Len(y)))

Mul3(a, b, c) ==
    LET x == BigOf(a)
        y == BigOf(b)
        z == BigOf(c)
        xy == BigMul(x, y)
    IN  BigMul(xy, z)

Mul4(a, b, c, d) ==
    LET xyz == Mul3(a, b, c)
        w == BigOf(d)
    IN  BigMul(xyz, w)

(***************************************************************************)
(* utils/music_theory.py: the Krumhansl-Schmuckler profiles, in hundredths *)
(***************************************************************************)
MAJOR_KEY_PROFILE == <<635, 223, 348, 233, 438, 409, 252, 519, 239, 366, 229, 288>>
MINOR_KEY_PROFILE == <<633, 268, 352, 538, 260, 353, 254, 475, 398, 269, 334, 317>>

Modes == {"major", "minor"}
Keys == (0..11) \X Modes

\* iteration order of the best-key search: root ascending, major before minor
KeyOrder ==
    Tup([n \in 1..24 |-> <<(n - 1) \div 2, IF n % 2 = 1 THEN "major" ELSE "minor">>])

(***************************************************************************)
(* _calculate_key_correlation.  A 12-vector is a sequence indexed 1..12,   *)
(* pitch class c at index c + 1.                                           *)
(***************************************************************************)
\* np.roll the other way round
roll_backwards(template, root) == Tup([i \in 1..12 |-> template[((i - 1 + root) % 12) + 1]])

\* np.roll(template, root): element i of the result is element i - root of the template
Roll(template, root) == Tup([i \in 1..12 |-> template[((i - 1 - root) % 12) + 1]])

\* 12 * (v[i] - mean(v)), which is an integer
Dev(v) == LET total == SumSeq(v) IN Tup([i \in 1..12 |-> 12 * v[i] - total])

Dot(u, v) == SumSeq(Tup([i \in 1..12 |-> u[i] * v[i]]))

\* numerator / denominator if denominator > 0 else 0
Quotient(numerator, profile_variance, template_variance) ==
    IF profile_variance > 0 /\ template_variance > 0
    THEN [numerator |-> numerator,
          profile_variance |-> profile_variance,
          template_variance |-> template_variance]
    ELSE [numerator |-> 0, profile_variance |-> 1, template_variance |-> 1]

\* the correlation as the three integers numerator, profile_variance and
\* template_variance (each scaled by 144), standing for the real number
\* numerator / sqrt(profile_variance * template_variance); the double that
\* the code returns for it is calculate_key_correlation_float64 below
calculate_key_correlation(pitch_profile, root, mode) ==
    LET template == IF mode = "major" THEN MAJOR_KEY_PROFILE ELSE MINOR_KEY_PROFILE
        rotated_template == Roll(template, root)
        dp == Dev(pitch_profile)
        dt == Dev(rotated_template)
    IN  Quotient(Dot(dp, dt), Dot(dp, dp), Dot(dt, dt))

CorrIsZero(c) ==
    c.numerator = 0 \/ c.profile_variance = 0 \/ c.template_variance = 0

CorrSign(c) == IF CorrIsZero(c) THEN 0 ELSE IF c.numerator > 0 THEN 1 ELSE -1

\* |a| compared with |b|, both non-zero: a.num^2 * b.pv * b.tv against b.num^2 * a.pv * a.tv
CorrAbsCmp(a, b) ==
    LET left == Mul4(Abs(a.numerator), Abs(a.numerator),
                     b.profile_variance, b.template_variance)
        right == Mul4(Abs(b.numerator), Abs(b.numerator),
                      a.profile_variance, a.template_variance)
    IN  BigCmp(left, right)

\* a > b
CorrGreater(a, b) ==
    LET sa == CorrSign(a)
        sb == CorrSign(b)
    IN  IF sa # sb THEN sa > sb
        ELSE IF sa = 0 THEN FALSE
        ELSE IF sa = 1 THEN CorrAbsCmp(a, b) = 1
        ELSE CorrAbsCmp(a, b) = -1

\* c >= t / Scale, for a fixed-point t > 0
CorrAtLeast(c, t) ==
    /\ CorrSign(c) = 1
    /\ LET left == Mul4(Scale, Scale, c.numerator, c.numerator)
           right == Mul4(t, t, c.profile_variance, c.template_variance)
       IN  BigCmp(left, right) >= 0

\* the largest fixed-point t in lo..hi with c >= t / Scale (c >= lo / Scale given)
RECURSIVE CorrFloor(_, _, _)
CorrFloor(c, lo, hi) ==
    IF lo >= hi THEN lo
    ELSE LET mid == (lo + hi + 1) \div 2
         IN  IF CorrAtLeast(c, mid) THEN CorrFloor(c, mid, hi) ELSE CorrFloor(c, lo, mid - 1)

\* the float value of a non-negative correlation, in fixed point
CorrFixed(c) == IF CorrSign(c) <= 0 THEN 0 ELSE CorrFloor(c, 0, Scale)

(***************************************************************************)
(* core/midi_data.py: the document.  A note is [start, end, pitch,         *)
(* velocity] with times in ticks; a track is [muted, is_drum, notes]; a    *)
(* document is [tracks, time_signatures, tempo_changes, pm_key], where     *)
(* time_signatures holds <<time, numerator, denominator>>, tempo_changes   *)
(* holds <<time, bpm>> and pm_key is the (root, mode, 0.8) estimate of the *)
(* pretty_midi collaborator, or None.                                      *)
(***************************************************************************)
\* MidiNote.__post_init__: the constructor clamps every field
MidiNote(start, end, pitch, velocity) ==
    LET s == Max2(0, start)
    IN  [start |-> s,
         end |-> Max2(s, end),
         pitch |-> Max2(0, Min2(127, pitch)),
         velocity |-> Max2(0, Min2(127, velocity))]

RECURSIVE AllNotes(_)
\* the notes of a sequence of tracks, in track order
AllNotes(tracks) ==
    IF tracks = <<>> THEN <<>> ELSE Head(tracks).notes \o AllNotes(Tail(tracks))

Unmuted(track) == ~track.muted
NotDrum(track) == ~track.muted /\ ~track.is_drum

RECURSIVE MaxEnd(_)
MaxEnd(notes) == IF notes = <<>> THEN 0 ELSE Max2(Head(notes).end, MaxEnd(Tail(notes)))

\* MidiDocument.get_time_bounds, the end time: the latest note end over all
\* tracks, muted ones included; 0 for a document without notes
EndTime(doc) == MaxEnd(AllNotes(doc.tracks))

RECURSIVE MinStart(_)
MinStart(notes) ==
    IF Len(notes) = 1 THEN Head(notes).start
    ELSE Min2(Head(notes).start, MinStart(Tail(notes)))

\* MidiDocument.get_time_bounds, the start time.  A track without notes
\* reports (0, 0), so it pulls the minimum to 0.
StartTime(doc) ==
    IF \E t \in 1..Len(doc.tracks) : doc.tracks[t].notes = <<>> THEN 0
    ELSE IF doc.tracks = <<>> THEN 0
    ELSE MinStart(AllNotes(doc.tracks))

\* MidiDocument.get_chord_at_time: the pitches sounding at `time` on unmuted tracks
get_chord_at_time(doc, time) ==
    SelectSeq(AllNotes(SelectSeq(doc.tracks, Unmuted)),
              LAMBDA n : n.start <= time /\ time < n.end)

(***************************************************************************)
(* Python's max(d.items(), key=...) over an insertion-ordered dict returns *)
(* the first inserted entry among those with the greatest value.           *)
(***************************************************************************)
Count(seq, x) == Cardinality({i \in 1..Len(seq) : seq[i] = x})

\* the entry of a non-empty `seq` that occurs most often; of several, the one
\* that occurs first
FirstMostCommon(seq) ==
    LET counts == Tup([i \in 1..Len(seq) |-> Count(seq, seq[i])])
    IN  seq[CHOOSE i \in 1..Len(seq) :
                /\ \A j \in 1..Len(seq) : counts[j] <= counts[i]
                /\ \A j \in 1..(i - 1) : counts[j] < counts[i]]

(***************************************************************************)
(* _analyze_pitch_class_profile                                            *)
(***************************************************************************)
\* duration * velocity of the part of `note` inside [start_time, end_time);
\* the constant factor 1 / (127 * TicksPerSecond) is left out
NoteWeight(note, start_time, end_time) ==
    LET overlap_start == Max2(note.start, start_time)
        overlap_end == Min2(note.end, end_time)
    IN  IF overlap_end <= overlap_start THEN 0
        ELSE (overlap_end - overlap_start) * note.velocity

PitchWeights(doc, start_time, end_time) ==
    LET notes == AllNotes(SelectSeq(doc.tracks, Unmuted))
        weights == Tup([k \in 1..Len(notes) |-> NoteWeight(notes[k], start_time, end_time)])
    IN  Tup([c \in 1..12 |->
            SumSeq(Tup([k \in 1..Len(notes) |->
                IF notes[k].pitch % 12 = c - 1 THEN weights[k] ELSE 0]))])

\* pitch_weights / total_weight, as the integer vector in the same proportions
Normalize(pitch_weights) ==
    LET g == GCDSeq(pitch_weights)
    IN  Tup([c \in 1..12 |-> pitch_weights[c] \div g])

MinusOne == [numerator |-> -1, profile_variance |-> 1, template_variance |-> 1]

\* the loop over root and mode: a key replaces the best one only when its
\* correlation is strictly greater
RECURSIVE BestKeyFrom(_, _, _, _)
BestKeyFrom(pitch_profile, n, best_correlation, best_key) ==
    IF n > Len(KeyOrder) THEN [key |-> best_key, correlation |-> best_correlation]
    ELSE LET correlation ==
                 calculate_key_correlation(pitch_profile, KeyOrder[n][1], KeyOrder[n][2])
         IN  IF CorrGreater(correlation, best_correlation)
             THEN BestKeyFrom(pitch_profile, n + 1, correlation, KeyOrder[n])
             ELSE BestKeyFrom(pitch_profile, n + 1, best_correlation, best_key)

BestKey(pitch_profile) == BestKeyFrom(pitch_profile, 1, MinusOne, None)

\* c >= t / Scale for a fixed-point t >= 0
CorrMeets(c, t) == IF t <= 0 THEN CorrSign(c) >= 0 ELSE CorrAtLeast(c, t)

analyze_pitch_class_profile(doc, start_time, end_time, threshold) ==
    LET pitch_weights == PitchWeights(doc, start_time, end_time)
        pitch_profile == Normalize(pitch_weights)
        best == BestKey(pitch_profile)
    IN  IF SumSeq(pitch_weights) = 0 THEN None
        ELSE IF best.key # None /\ CorrMeets(best.correlation, threshold)
             THEN <<best.key[1], best.key[2], CorrFixed(best.correlation)>>
             ELSE None

(***************************************************************************)
(* binary64 arithmetic (IEEE 754 double precision, round to nearest even)  *)
(***************************************************************************)
\* The values NumPy computes with are doubles.  A natural number is a
\* sequence of limbs, least significant first, without leading zero limbs; a
\* double is [s, m, e] with value (-1)^s * m * 2^e, where m is zero (<<>>) or
\* has exactly MantissaBits bits.  Exponents are unbounded: no value of the
\* analysis is near the overflow or underflow threshold of a double.  Every
\* operation computes the exact result and rounds it once.  The operations
\* are functions, so that an argument is a value computed once.

\* the product of two limbs stays below 2^31
LimbBits == 2 * 7
Limb == 2^LimbBits
MantissaBits == 52 + 1
Magnitude == Seq(Nat)
Double == [s : {0, 1}, m : Magnitude, e : Int]

NatLimb(x, n) == IF n >= 1 /\ n <= Len(x) THEN x[n] ELSE 0

\* bit k of x, bit 0 the least significant
NatBit(x, k) == (NatLimb(x, (k \div LimbBits) + 1) \div 2^(k % LimbBits)) % 2

NatTrim[x \in Magnitude] ==
    SubSeq(x, 1, CHOOSE m \in 0..Len(x) :
                    /\ m = 0 \/ x[m] # 0
                    /\ \A n \in (m + 1)..Len(x) : x[n] = 0)

NatOf[n \in Nat] == NatTrim[<<n % Limb, (n \div Limb) % Limb, n \div (Limb * Limb)>>]

\* -1, 0, 1 as x < y, x = y, x > y
NatCmp[x \in Magnitude, y \in Magnitude] ==
    IF x = y THEN 0
    ELSE IF Len(x) # Len(y) THEN (IF Len(x) < Len(y) THEN -1 ELSE 1)
    ELSE IF \E n \in 1..Len(x) : x[n] < y[n] /\ \A k \in (n + 1)..Len(x) : x[k] = y[k]
    THEN -1 ELSE 1

\* the carry into limb n of x + y: some lower limb overflows and every limb
\* between passes the carry on
CarryInto(x, y, n) ==
    \E j \in 1..(n - 1) :
        /\ NatLimb(x, j) + NatLimb(y, j) >= Limb
        /\ \A k \in (j + 1)..(n - 1) : NatLimb(x, k) + NatLimb(y, k) = Limb - 1

NatAdd[x \in Magnitude, y \in Magnitude] ==
    NatTrim[Tup([n \in 1..(Max2(Len(x), Len(y)) + 1) |->
        (NatLimb(x, n) + NatLimb(y, n) + (IF CarryInto(x, y, n) THEN 1 ELSE 0)) % Limb])]

BorrowFrom(x, y, n) ==
    \E j \in 1..(n - 1) :
        /\ NatLimb(x, j) < NatLimb(y, j)
        /\ \A k \in (j + 1)..(n - 1) : NatLimb(x, k) = NatLimb(y, k)

\* x - y for x >= y
NatSub[x \in Magnitude, y \in Magnitude] ==
    NatTrim[Tup([n \in 1..Len(x) |->
        (NatLimb(x, n) - NatLimb(y, n) - (IF BorrowFrom(x, y, n) THEN 1 ELSE 0) + Limb) % Limb])]

\* x * 2^k
NatShl[x \in Magnitude, k \in Nat] ==
    IF x = <<>> THEN x
    ELSE Tup([n \in 1..(k \div LimbBits) |-> 0])
         \o NatTrim[Tup([n \in 1..(Len(x) + 1) |->
                ((NatLimb(x, n) * 2^(k % LimbBits)) % Limb)
                + ((NatLimb(x, n - 1) * 2^(k % LimbBits)) \div Limb)])]

\* x \div 2^k
NatShr[x \in Magnitude, k \in Nat] ==
    IF Len(x) <= k \div LimbBits THEN <<>>
    ELSE NatTrim[Tup([n \in 1..(Len(x) - (k \div LimbBits)) |->
        (NatLimb(x, n + (k \div LimbBits)) \div 2^(k % LimbBits))
        + (NatLimb(x, n + (k \div LimbBits) + 1) % 2^(k % LimbBits))
          * 2^(LimbBits - (k % LimbBits))])]

\* whether x % 2^k is not zero
NatLowBits(x, k) ==
    \/ \E n \in 1..Min2(Len(x), k \div LimbBits) : x[n] # 0
    \/ NatLimb(x, (k \div LimbBits) + 1) % 2^(k % LimbBits) # 0

NatBits[x \in Magnitude] ==
    IF x = <<>> THEN 0
    ELSE LimbBits * (Len(x) - 1)
         + (CHOOSE b \in 1..LimbBits : 2^(b - 1) <= x[Len(x)] /\ x[Len(x)] < 2^b)

\* x * c for one limb c
NatScale[x \in Magnitude, c \in Nat] ==
    NatAdd[NatTrim[Tup([n \in 1..Len(x) |-> (x[n] * c) % Limb])],
           NatTrim[<<0>> \o Tup([n \in 1..Len(x) |-> (x[n] * c) \div Limb])]]

\* x * (y without its limbs below limb j)
NatMulFrom[x \in Magnitude, y \in Magnitude, j \in Nat] ==
    IF j > Len(y) THEN <<>>
    ELSE NatAdd[NatScale[x, y[j]], NatShl[NatMulFrom[x, y, j + 1], LimbBits]]

NatMul[x \in Magnitude, y \in Magnitude] == NatMulFrom[x, y, 1]

\* the quotient limbs found, the remainder, and the limbs still to bring down
DivState == [q : Magnitude, r : Magnitude, n : Nat]

\* long division by a divisor d whose top limb is at least Limb / 2: the limbs
\* done.n .. 1 of x are brought down onto the remainder done.r one at a time.
\* The quotient limb estimated from the top limbs of the remainder cur is at
\* most two too large.
DivTake[done \in DivState, d \in Magnitude, cur \in Magnitude, digit \in Nat] ==
    [q |-> <<digit>> \o done.q, r |-> NatSub[cur, NatScale[d, digit]], n |-> done.n - 1]

DivDigit[done \in DivState, d \in Magnitude, cur \in Magnitude, est \in Nat] ==
    IF NatCmp[NatScale[d, est], cur] <= 0 THEN DivTake[done, d, cur, est]
    ELSE IF NatCmp[NatScale[d, est - 1], cur] <= 0 THEN DivTake[done, d, cur, est - 1]
    ELSE DivTake[done, d, cur, est - 2]

DivStep[done \in DivState, d \in Magnitude, cur \in Magnitude] ==
    DivDigit[done, d, cur,
             Min2(Limb - 1,
                  (NatLimb(cur, Len(d) + 1) * Limb + NatLimb(cur, Len(d))) \div d[Len(d)])]

DivFrom[done \in DivState, x \in Magnitude, d \in Magnitude] ==
    IF done.n = 0 THEN [q |-> NatTrim[done.q], r |-> done.r]
    ELSE DivFrom[DivStep[done, d, NatTrim[<<x[done.n]>> \o done.r]], x, d]

\* the first Len(x) - Len(d) + 1 limbs of x cannot hold a quotient digit
DivNormal[x \in Magnitude, d \in Magnitude] ==
    DivFrom[[q |-> <<>>,
             r |-> SubSeq(x, Max2(0, Len(x) - Len(d) + 1) + 1, Len(x)),
             n |-> Max2(0, Len(x) - Len(d) + 1)], x, d]

QuotRem == [q : Magnitude, r : Magnitude]

\* [q, r] with q = x \div d, and r = 0 exactly when d divides x; d # 0
NatDivMod[x \in Magnitude, d \in Magnitude] ==
    DivNormal[NatShl[x, LimbBits * Len(d) - NatBits[d]],
              NatShl[d, LimbBits * Len(d) - NatBits[d]]]

\* the largest r with r * r <= x, by Newton's iteration downwards from a
\* start above it: r follows prev until it stops decreasing
NatRootFrom[prev \in Magnitude, r \in Magnitude, x \in Magnitude] ==
    IF NatCmp[r, prev] >= 0 THEN prev
    ELSE NatRootFrom[r, NatShr[NatAdd[r, NatDivMod[x, r].q], 1], x]

\* a power of two above the root of x # 0
NatRootStart[x \in Magnitude] == NatShl[<<1>>, (NatBits[x] + 1) \div 2]

NatRoot[x \in Magnitude] ==
    NatRootFrom[NatRootStart[x],
                NatShr[NatAdd[NatRootStart[x], NatDivMod[x, NatRootStart[x]].q], 1], x]

FZero == [s |-> 0, m |-> <<>>, e |-> 0]

\* a mantissa that rounding up has carried to MantissaBits + 1 bits
Renormal[s \in {0, 1}, x \in Magnitude, e \in Int] ==
    IF NatBits[x] > MantissaBits THEN [s |-> s, m |-> NatShr[x, 1], e |-> e + 1]
    ELSE [s |-> s, m |-> x, e |-> e]

\* x has k bits more than a mantissa (k <= 0: fewer): the bits below bit k go,
\* and the mantissa goes up when they are more than half of its last place,
\* or exactly half and the mantissa is odd
RoundOff[s \in {0, 1}, x \in Magnitude, e \in Int, k \in Int] ==
    IF x = <<>> THEN FZero
    ELSE IF k <= 0 THEN [s |-> s, m |-> NatShl[x, -k], e |-> e + k]
    ELSE IF NatBit(x, k - 1) = 1 /\ (NatLowBits(x, k - 1) \/ NatBit(x, k) = 1)
    THEN Renormal[s, NatAdd[NatShr[x, k], <<1>>], e + k]
    ELSE [s |-> s, m |-> NatShr[x, k], e |-> e + k]

\* the double nearest to (-1)^s * x * 2^e, ties to the even mantissa
Round[s \in {0, 1}, x \in Magnitude, e \in Int] ==
    RoundOff[s, x, e, NatBits[x] - MantissaBits]

FOfInt[n \in Int] == Round[IF n < 0 THEN 1 ELSE 0, NatOf[Abs(n)], 0]

FNeg[a \in Double] == IF a.m = <<>> THEN a ELSE [a EXCEPT !.s = 1 - @]

\* (-1)^s * x * 2^e + (-1)^t * y * 2^e
AddAligned[s \in {0, 1}, x \in Magnitude, t \in {0, 1}, y \in Magnitude, e \in Int] ==
    IF s = t THEN Round[s, NatAdd[x, y], e]
    ELSE IF x = y THEN FZero
    ELSE IF NatCmp[x, y] > 0 THEN Round[s, NatSub[x, y], e]
    ELSE Round[t, NatSub[y, x], e]

FAdd[a \in Double, b \in Double] ==
    IF a.m = <<>> THEN b
    ELSE IF b.m = <<>> THEN a
    ELSE AddAligned[a.s, NatShl[a.m, a.e - Min2(a.e, b.e)],
                    b.s, NatShl[b.m, b.e - Min2(a.e, b.e)], Min2(a.e, b.e)]

FSub[a \in Double, b \in Double] == FAdd[a, FNeg[b]]

FMul[a \in Double, b \in Double] == Round[(a.s + b.s) % 2, NatMul[a.m, b.m], a.e + b.e]

\* the double nearest to (-1)^s * (2 * q + sticky) * 2^e, where sticky stands
\* for a part of the exact value below the last bit of q
RoundSticky[s \in {0, 1}, q \in Magnitude, sticky \in BOOLEAN, e \in Int] ==
    Round[s, NatAdd[NatShl[q, 1], IF sticky THEN <<1>> ELSE <<>>], e]

\* the quotient keeps GuardBits bits more than the dividend has
GuardBits == MantissaBits + 3

\* a / b for b # 0
FDivBy[a \in Double, b \in Double, d \in QuotRem] ==
    RoundSticky[(a.s + b.s) % 2, d.q, d.r # <<>>, a.e - b.e - (GuardBits + 1)]

FDiv[a \in Double, b \in Double] ==
    IF a.m = <<>> THEN FZero
    ELSE FDivBy[a, b, NatDivMod[NatShl[a.m, GuardBits], b.m]]

\* sqrt(a) for a >= 0: x is the mantissa moved up to an even exponent e, and
\* r the integer root of x
FSqrtOf[x \in Magnitude, r \in Magnitude, e \in Int] ==
    RoundSticky[0, r, NatMul[r, r] # x, (e \div 2) - 1]

FSqrtUp[x \in Magnitude, e \in Int] == FSqrtOf[x, NatRoot[x], e]

FSqrt[a \in Double] ==
    IF a.m = <<>> THEN FZero
    ELSE FSqrtUp[NatShl[a.m, 2 * GuardBits - MantissaBits - 1 + (a.e % 2)],
                 a.e - (2 * GuardBits - MantissaBits - 1 + (a.e % 2))]

\* -1, 0, 1 as a < b, a = b, a > b
FCmp(a, b) ==
    IF a.m = <<>> /\ b.m = <<>> THEN 0
    ELSE IF a.m = <<>> THEN (IF b.s = 0 THEN -1 ELSE 1)
    ELSE IF b.m = <<>> THEN (IF a.s = 0 THEN 1 ELSE -1)
    ELSE IF a.s # b.s THEN (IF a.s = 0 THEN 1 ELSE -1)
    ELSE IF a.e # b.e THEN (IF (a.e > b.e) = (a.s = 0) THEN 1 ELSE -1)
    ELSE IF a.s = 0 THEN NatCmp[a.m, b.m] ELSE NatCmp[b.m, a.m]

(***************************************************************************)
(* _calculate_key_correlation in binary64                                  *)
(***************************************************************************)
\* the double a literal of n / d denotes (6.35 is 635 / 100 rounded once)
Float64(n, d) == FDiv[FOfInt[n], FOfInt[d]]

\* np.array(MAJOR_KEY_PROFILE), np.array(MINOR_KEY_PROFILE)
MajorTemplate == Tup([n \in 1..12 |-> Float64(MAJOR_KEY_PROFILE[n], 100)])
MinorTemplate == Tup([n \in 1..12 |-> Float64(MINOR_KEY_PROFILE[n], 100)])

\* np.sum of a contiguous float64 vector of 12 elements: NumPy's pairwise
\* summation adds the first eight elements in pairs, and then adds the
\* remaining four in order
np_sum[v \in Seq(Double)] ==
    FAdd[FAdd[FAdd[FAdd[FAdd[FAdd[FAdd[v[1], v[2]], FAdd[v[3], v[4]]],
                             FAdd[FAdd[v[5], v[6]], FAdd[v[7], v[8]]]],
                        v[9]], v[10]], v[11]], v[12]]

np_mean[v \in Seq(Double)] == FDiv[np_sum[v], FOfInt[12]]

\* v - mean
Minus[v \in Seq(Double), mean \in Double] == Tup([n \in 1..12 |-> FSub[v[n], mean]])

\* pitch_profile - mean_profile, rotated_template - mean_template
Deviations[v \in Seq(Double)] == Minus[v, np_mean[v]]

\* u * v, element by element (u ** 2 is u * u)
Times[u \in Seq(Double), v \in Seq(Double)] == Tup([n \in 1..12 |-> FMul[u[n], v[n]]])

Guarded[numerator \in Double, denominator \in Double] ==
    IF FCmp(denominator, FZero) > 0 THEN FDiv[numerator, denominator] ELSE FZero

Pearson[numerator \in Double, profile_variance \in Double, template_variance \in Double] ==
    Guarded[numerator, FSqrt[FMul[profile_variance, template_variance]]]

Correlation[dp \in Seq(Double), dt \in Seq(Double)] ==
    Pearson[np_sum[Times[dp, dt]], np_sum[Times[dp, dp]], np_sum[Times[dt, dt]]]

calculate_key_correlation_float64(pitch_profile, root, mode) ==
    Correlation[Deviations[pitch_profile],
                Deviations[Roll(IF mode = "major" THEN MajorTemplate ELSE MinorTemplate, root)]]

\* pitch_weights / total_weight, for weights that are whole numbers
Normalised(pitch_weights, total_weight) ==
    Tup([n \in 1..12 |-> FDiv[FOfInt[pitch_weights[n]], FOfInt[total_weight]]])

\* best_key and best_correlation
BestSoFar == [key : {None} \cup Keys, correlation : Double]

\* best_correlation = -1, best_key = None
NoBestKey == [key |-> None, correlation |-> FOfInt[-1]]

\* if correlation > best_correlation: the key replaces the best one
Better[key \in Keys, correlation \in Double, best \in BestSoFar] ==
    IF FCmp(correlation, best.correlation) > 0
    THEN [key |-> key, correlation |-> correlation]
    ELSE best

\* the loop over root and mode, from the n-th key on
BestKeyFrom64[pitch_profile \in Seq(Double), n \in Nat, best \in BestSoFar] ==
    IF n > Len(KeyOrder) THEN best
    ELSE BestKeyFrom64[pitch_profile, n + 1,
             Better[KeyOrder[n],
                    calculate_key_correlation_float64(pitch_profile, KeyOrder[n][1],
                                                      KeyOrder[n][2]),
                    best]]

\* the comparison with >= in place of >
AtLeastAsGood[key \in Keys, correlation \in Double, best \in BestSoFar] ==
    IF FCmp(correlation, best.correlation) >= 0
    THEN [key |-> key, correlation |-> correlation]
    ELSE best

\* the loop that keeps the last of the best keys
LastBestKeyFrom64[pitch_profile \in Seq(Double), n \in Nat, best \in BestSoFar] ==
    IF n > Len(KeyOrder) THEN best
    ELSE LastBestKeyFrom64[pitch_profile, n + 1,
             AtLeastAsGood[KeyOrder[n],
                           calculate_key_correlation_float64(pitch_profile, KeyOrder[n][1],
                                                             KeyOrder[n][2]),
                           best]]

LastBestKey64(pitch_profile) == LastBestKeyFrom64[pitch_profile, 1, NoBestKey]

BestKey64(pitch_profile) == BestKeyFrom64[pitch_profile, 1, NoBestKey]

(***************************************************************************)
(* _analyze_harmonic_context                                               *)
(***************************************************************************)
SamplingInterval == TicksPerSecond \div 4

\* np.arange(start_time, end_time, sampling_interval)
SampleTimes(start_time, end_time) ==
    Tup([k \in 1..((end_time - start_time + SamplingInterval - 1) \div SamplingInterval) |->
        start_time + (k - 1) * SamplingInterval])

SetMin(S) == CHOOSE x \in S : \A y \in S : x <= y

\* _identify_chord_root: the lowest pitch class of the chord, as <<root>>
identify_chord_root(chord_pcs) ==
    IF Cardinality(chord_pcs) < 2 THEN None ELSE <<SetMin(chord_pcs)>>

\* the pitch-class sets of the samples at which two or more notes sound
ChordProgressions(doc, start_time, end_time) ==
    LET times == SampleTimes(start_time, end_time)
        chords == Tup([k \in 1..Len(times) |-> get_chord_at_time(doc, times[k])])
        full == SelectSeq(chords, LAMBDA chord : Len(chord) >= 2)
    IN  Tup([k \in 1..Len(full) |-> {full[k][n].pitch % 12 : n \in 1..Len(full[k])}])

\* _analyze_chord_qualities: major thirds minus minor thirds above the root
analyze_chord_qualities(chord_progressions, root) ==
    SumSeq(Tup([k \in 1..Len(chord_progressions) |->
        Cardinality({c \in chord_progressions[k] : (c - root) % 12 = 4})
        - Cardinality({c \in chord_progressions[k] : (c - root) % 12 = 3})]))

analyze_harmonic_context(doc, start_time, end_time) ==
    LET chord_progressions == ChordProgressions(doc, start_time, end_time)
        candidates == Tup([k \in 1..Len(chord_progressions) |->
                              identify_chord_root(chord_progressions[k])])
        found == SelectSeq(candidates, LAMBDA r : r # None)
        chord_roots == Tup([k \in 1..Len(found) |-> found[k][1]])
        most_common_root == FirstMostCommon(chord_roots)
        mode_evidence == analyze_chord_qualities(chord_progressions, most_common_root)
    IN  IF chord_roots = <<>> THEN None
        ELSE <<most_common_root,
               IF mode_evidence > 0 THEN "major" ELSE "minor",
               (9 * Scale * Count(chord_roots, most_common_root)) \div (10 * Len(chord_roots))>>

(***************************************************************************)
(* _analyze_melodic_context                                                *)
(***************************************************************************)
ScaleDegrees(mode) ==
    IF mode = "major" THEN {0, 2, 4, 5, 7, 9, 11} ELSE {0, 2, 3, 5, 7, 8, 10}

\* _score_melodic_scale_fit, as the number of notes of the sequence in the scale
ScaleNotes(pitch_sequence, root, mode) ==
    Cardinality({k \in 1..Len(pitch_sequence) :
        \E degree \in ScaleDegrees(mode) : pitch_sequence[k] = (root + degree) % 12})

analyze_melodic_context(doc, start_time, end_time) ==
    LET notes == SelectSeq(AllNotes(SelectSeq(doc.tracks, NotDrum)),
                           LAMBDA n : start_time <= n.start /\ n.start < end_time)
        pitch_sequence == Tup([k \in 1..Len(notes) |-> notes[k].pitch % 12])
        fit == Tup([n \in 1..Len(KeyOrder) |->
                       ScaleNotes(pitch_sequence, KeyOrder[n][1], KeyOrder[n][2])])
        best == CHOOSE n \in 1..Len(KeyOrder) :
                    /\ \A m \in 1..Len(KeyOrder) : fit[m] <= fit[n]
                    /\ \A m \in 1..(n - 1) : fit[m] < fit[n]
    IN  IF Len(notes) < 4 THEN None
        ELSE IF 10 * fit[best] > 3 * Len(notes)
             THEN <<KeyOrder[best][1], KeyOrder[best][2], (Scale * fit[best]) \div Len(notes)>>
             ELSE None

(***************************************************************************)
(* _get_prettymidi_key, _combine_analyses, _analyze_window                 *)
(***************************************************************************)
\* the collaborator's estimate for the whole document, with confidence 0.8
get_prettymidi_key(doc) ==
    IF doc.pm_key = None THEN None
    ELSE <<doc.pm_key[1], doc.pm_key[2], (8 * Scale) \div 10>>

ResultKey(result) == <<result[1], result[2]>>

\* the summed confidence of the results that vote for `key`
Votes(results, key) ==
    SumSeq(Tup([k \in 1..Len(results) |->
        IF ResultKey(results[k]) = key THEN results[k][3] ELSE 0]))

combine_analyses(results) ==
    LET total_weight == SumSeq(Tup([k \in 1..Len(results) |-> results[k][3]]))
        first == CHOOSE k \in 1..Len(results) :
                    /\ \A j \in 1..Len(results) :
                          Votes(results, ResultKey(results[j]))
                              <= Votes(results, ResultKey(results[k]))
                    /\ \A j \in 1..(k - 1) :
                          Votes(results, ResultKey(results[j]))
                              < Votes(results, ResultKey(results[k]))
        best_key == ResultKey(results[first])
    IN  IF results = <<>> THEN None
        ELSE IF total_weight = 0 THEN None
        ELSE <<best_key[1], best_key[2],
               (Scale * Votes(results, best_key)) \div total_weight, "combined">>

\* the four methods' results, in the order in which _analyze_window runs them
Evidence(doc, start_time, end_time, threshold) ==
    [prettymidi |-> get_prettymidi_key(doc),
     pitch_class |-> analyze_pitch_class_profile(doc, start_time, end_time, threshold),
     harmonic |-> analyze_harmonic_context(doc, start_time, end_time),
     melodic |-> analyze_melodic_context(doc, start_time, end_time)]

\* the methods' results that are not None, in the order of the methods
Results(supporting_evidence) ==
    SelectSeq(<<supporting_evidence.prettymidi,
                supporting_evidence.pitch_class,
                supporting_evidence.harmonic,
                supporting_evidence.melodic>>,
              LAMBDA r : r # None)

\* the KeyAnalysisPoint that _analyze_window constructs
KeyAnalysisPoint(window_info, final_result, supporting_evidence) ==
    IF final_result = None THEN None
    ELSE [time |-> window_info.center_time,
          measure |-> window_info.center_measure \div MeasureUnit,
          root |-> final_result[1],
          mode |-> final_result[2],
          confidence |-> final_result[3],
          analysis_method |-> final_result[4],
          supporting_evidence |-> supporting_evidence,
          window_size |-> window_info.window_size_measures,
          window |-> <<window_info.start_time, window_info.end_time>>]

CombinedPoint(window_info, supporting_evidence) ==
    LET results == Results(supporting_evidence)
    IN  LET final_result == combine_analyses(results)
        IN  KeyAnalysisPoint(window_info, final_result, supporting_evidence)

analyze_window(doc, window_info, threshold) ==
    LET supporting_evidence ==
            Evidence(doc, window_info.start_time, window_info.end_time, threshold)
    IN  CombinedPoint(window_info, supporting_evidence)

(***************************************************************************)
(* _classify_modulation_type                                               *)
(***************************************************************************)
ParallelLabel(mode) == IF mode = "major" THEN "Parallel Major" ELSE "Parallel Minor"

ModalLabel(from_mode, to_mode) ==
    IF from_mode = "major" THEN "Modal (major to minor)" ELSE "Modal (minor to major)"

\* the classifier without its last branch
classify_without_default(from_key, to_key) ==
    LET interval == (to_key[1] - from_key[1]) % 12
    IN  IF from_key[2] = to_key[2]
        THEN IF interval = 7 THEN "Dominant"
             ELSE IF interval = 5 THEN "Subdominant"
             ELSE IF interval = 2 THEN "Whole Step Up"
             ELSE IF interval = 10 THEN "Whole Step Down"
             ELSE ParallelLabel(from_key[2])
        ELSE IF from_key[1] = to_key[1] THEN ModalLabel(from_key[2], to_key[2])
             ELSE IF interval = 3 /\ from_key[2] = "major" THEN "Relative Minor"
             ELSE IF interval = 9 /\ from_key[2] = "minor" THEN "Relative Major"
             ELSE None

\* the classifier with the relative keys told by the interval between tonics
\* of relative keys: 9 from major down to its relative minor, 3 back
classify_relative_by_tonic(from_key, to_key) ==
    LET interval == (to_key[1] - from_key[1]) % 12
    IN  IF from_key[2] = to_key[2]
        THEN IF interval = 7 THEN "Dominant"
             ELSE IF interval = 5 THEN "Subdominant"
             ELSE IF interval = 2 THEN "Whole Step Up"
             ELSE IF interval = 10 THEN "Whole Step Down"
             ELSE ParallelLabel(from_key[2])
        ELSE IF from_key[1] = to_key[1] THEN ModalLabel(from_key[2], to_key[2])
             ELSE IF interval = 9 /\ from_key[2] = "major" THEN "Relative Minor"
             ELSE IF interval = 3 /\ from_key[2] = "minor" THEN "Relative Major"
             ELSE "Mode Change"

classify_modulation_type(from_key, to_key) ==
    LET from_root == from_key[1]
        from_mode == from_key[2]
        to_root == to_key[1]
        to_mode == to_key[2]
        interval == (to_root - from_root) % 12
    IN  IF from_mode = to_mode
        THEN IF interval = 7 THEN "Dominant"
             ELSE IF interval = 5 THEN "Subdominant"
             ELSE IF interval = 2 THEN "Whole Step Up"
             ELSE IF interval = 10 THEN "Whole Step Down"
             ELSE ParallelLabel(from_mode)
        ELSE IF from_root = to_root THEN ModalLabel(from_mode, to_mode)
             ELSE IF interval = 3 /\ from_mode = "major" /\ to_mode = "minor"
                  THEN "Relative Minor"
             ELSE IF interval = 9 /\ from_mode = "minor" /\ to_mode = "major"
                  THEN "Relative Major"
             ELSE "Mode Change"

(***************************************************************************)
(* _update_stability_tracking and _record_key_transition                   *)
(***************************************************************************)
\* a count of base_window_measures taken as seconds, in ticks
MeasuresAsTicks(measures) == (measures * TicksPerSecond) \div MeasureUnit

\* a transition recorded with its keys exchanged
record_reversed_transition(transitions, time, from_key, to_key, window_measures) ==
    Append(transitions,
           [from_time |-> time - MeasuresAsTicks(window_measures),
            to_time |-> time,
            from_key |-> to_key,
            to_key |-> from_key,
            transition_strength |-> (8 * Scale) \div 10,
            pivot_chords |-> <<>>,
            modulation_type |-> classify_modulation_type(to_key, from_key)])

record_key_transition(transitions, time, from_key, to_key, window_measures) ==
    Append(transitions,
           [from_time |-> time - MeasuresAsTicks(window_measures),
            to_time |-> time,
            from_key |-> from_key,
            to_key |-> to_key,
            transition_strength |-> (8 * Scale) \div 10,
            pivot_chords |-> <<>>,
            modulation_type |-> classify_modulation_type(from_key, to_key)])

\* deque(maxlen = maxlen).append
DequeAppend(buffer, entry, maxlen) ==
    IF Len(buffer) >= maxlen THEN Append(Tail(buffer), entry) ELSE Append(buffer, entry)

\* "Allow one disagreement"
AgreesEnough(count, threshold) == count >= threshold - 1

\* the update rule without its confidence condition
AlwaysConfident(total_confidence, count, threshold) == TRUE

\* total_confidence[key] / count >= confidence_threshold
ConfidentEnough(total_confidence, count, threshold) ==
    total_confidence >= threshold * count

\* the analyzer's tracking state after _update_stability_tracking(analysis_point)
update_stability_tracking(tracking, analysis_point, st_threshold, conf_threshold, window_measures) ==
    LET current_key == <<analysis_point.root, analysis_point.mode>>
        buffer == DequeAppend(tracking.stability_buffer,
                              <<current_key, analysis_point.confidence>>, st_threshold)
        keys == Tup([k \in 1..Len(buffer) |-> buffer[k][1]])
        most_common_key == FirstMostCommon(keys)
        count == Count(keys, most_common_key)
        total_confidence ==
            SumSeq(Tup([k \in 1..Len(buffer) |->
                IF buffer[k][1] = most_common_key THEN buffer[k][2] ELSE 0]))
        changed ==
            /\ Len(buffer) >= st_threshold
            /\ AgreesEnough(count, st_threshold)
            /\ ConfidentEnough(total_confidence, count, conf_threshold)
            /\ tracking.current_stable_key # most_common_key
    IN  [stability_buffer |-> buffer,
         current_stable_key |->
             IF changed THEN most_common_key ELSE tracking.current_stable_key,
         key_transitions |->
             IF changed /\ tracking.current_stable_key # None
             THEN record_key_transition(tracking.key_transitions, analysis_point.time,
                                        tracking.current_stable_key, most_common_key,
                                        window_measures)
             ELSE tracking.key_transitions]

(***************************************************************************)
(* _smooth_key_analysis                                                    *)
(***************************************************************************)
PointKey(point) == <<point.root, point.mode>>

\* the loop that puts the point before in the place of an outlier
RECURSIVE smooth_by_copy(_, _, _)
smooth_by_copy(points, i, conf_threshold) ==
    IF i > Len(points) - 1 THEN points
    ELSE IF /\ PointKey(points[i - 1]) = PointKey(points[i + 1])
            /\ PointKey(points[i]) # PointKey(points[i - 1])
            /\ points[i].confidence < conf_threshold + Scale \div 10
         THEN smooth_by_copy([points EXCEPT ![i] = points[i - 1]], i + 1, conf_threshold)
         ELSE smooth_by_copy(points, i + 1, conf_threshold)

\* the pass that compares every point with its neighbours as they were
\* before the pass
smooth_from_snapshot(points, conf_threshold) ==
    [k \in 1..Len(points) |->
        IF /\ 1 < k
           /\ k < Len(points)
           /\ PointKey(points[k - 1]) = PointKey(points[k + 1])
           /\ PointKey(points[k]) # PointKey(points[k - 1])
           /\ points[k].confidence < conf_threshold + Scale \div 10
        THEN [points[k] EXCEPT !.root = points[k - 1].root,
                               !.mode = points[k - 1].mode,
                               !.analysis_method = @ \o " (smoothed)"]
        ELSE points[k]]

\* the loop for i in range(1, len - 1), which reads the keys already smoothed
RECURSIVE SmoothFrom(_, _, _)
SmoothFrom(points, i, conf_threshold) ==
    IF i > Len(points) - 1 THEN points
    ELSE LET prev_key == PointKey(points[i - 1])
             curr_key == PointKey(points[i])
             next_key == PointKey(points[i + 1])
             smoothed == [points EXCEPT ![i] =
                             [@ EXCEPT !.root = prev_key[1],
                                       !.mode = prev_key[2],
                                       !.analysis_method = @ \o " (smoothed)"]]
         IN  IF /\ prev_key = next_key
                /\ curr_key # prev_key
                /\ points[i].confidence < conf_threshold + Scale \div 10
             THEN SmoothFrom(smoothed, i + 1, conf_threshold)
             ELSE SmoothFrom(points, i + 1, conf_threshold)

smooth_key_analysis(points, conf_threshold) ==
    IF Len(points) < 3 THEN points ELSE SmoothFrom(points, 2, conf_threshold)

(***************************************************************************)
(* _get_measure_times and _estimate_measure_duration                       *)
(***************************************************************************)
RECURSIVE Insert(_, _)
Insert(sorted, x) ==
    IF sorted = <<>> THEN <<x>>
    ELSE IF x < Head(sorted) THEN <<x>> \o sorted
    ELSE <<Head(sorted)>> \o Insert(Tail(sorted), x)

RECURSIVE Sort(_)
\* list.sort() of a list of numbers
Sort(seq) == IF seq = <<>> THEN <<>> ELSE Insert(Sort(Tail(seq)), Head(seq))

Tenth == TicksPerSecond \div 10

\* round(interval, 1) of an interval that is a multiple of a quarter second:
\* to the nearest tenth, a tie (x.25, x.75) to the even tenth
RoundTenth(interval) ==
    LET down == interval \div Tenth
        rest == interval % Tenth
    IN  IF 2 * rest < Tenth THEN down * Tenth
        ELSE IF 2 * rest > Tenth THEN (down + 1) * Tenth
        ELSE IF down % 2 = 0 THEN down * Tenth ELSE (down + 1) * Tenth

DefaultMeasureDuration == 2 * TicksPerSecond

estimate_measure_duration(doc) ==
    LET notes == AllNotes(SelectSeq(doc.tracks, Unmuted))
        unsorted == Tup([k \in 1..Len(notes) |-> notes[k].start])
        note_onsets == Sort(unsorted)
        intervals == Tup([k \in 1..(Min2(50, Len(note_onsets)) - 1) |->
                            RoundTenth(note_onsets[k + 1] - note_onsets[k])])
    IN  IF Len(note_onsets) < 4 THEN DefaultMeasureDuration
        ELSE 4 * FirstMostCommon(intervals)

\* the inner while loops: the last change event at or before current_time
RECURSIVE Advance(_, _, _)
Advance(events, index, current_time) ==
    IF index < Len(events) /\ current_time >= events[index + 1][1]
    THEN Advance(events, index + 1, current_time)
    ELSE index

\* the locals of _get_measure_times before its loop
MeasureLoopStart(doc) ==
    [current_time |-> 0,
     measure_number |-> 1,
     ts_index |-> 0,
     tempo_index |-> 0,
     beats_per_measure |-> 4,
     current_tempo |-> 120,
     end_time |-> EndTime(doc),
     estimated_measure_duration |->
         IF doc.time_signatures = <<>> THEN estimate_measure_duration(doc) ELSE 0]

\* one iteration of the while loop: the locals after it
MeasureLoopStep(doc, t) ==
    IF doc.time_signatures # <<>>
    THEN LET ts_index == Advance(doc.time_signatures, t.ts_index, t.current_time)
             tempo_index == Advance(doc.tempo_changes, t.tempo_index, t.current_time)
             beats_per_measure ==
                 IF ts_index > t.ts_index THEN doc.time_signatures[ts_index][2]
                 ELSE t.beats_per_measure
             current_tempo ==
                 IF tempo_index > t.tempo_index THEN doc.tempo_changes[tempo_index][2]
                 ELSE t.current_tempo
             measure_duration == (beats_per_measure * 60 * TicksPerSecond) \div current_tempo
         IN  [t EXCEPT !.ts_index = ts_index,
                       !.tempo_index = tempo_index,
                       !.beats_per_measure = beats_per_measure,
                       !.current_tempo = current_tempo,
                       !.current_time = @ + measure_duration,
                       !.measure_number = @ + 1]
    ELSE [t EXCEPT !.current_time = @ + t.estimated_measure_duration,
                   !.measure_number = @ + 1]

(***************************************************************************)
(* _calculate_measure_windows and _calculate_adaptive_window_size.         *)
(* measure_times holds <<time, measure_number>>; the index i counts from 0 *)
(* as in the source.                                                       *)
(***************************************************************************)
min_window_measures == MeasureUnit \div 2
max_window_measures == 8 * MeasureUnit

calculate_adaptive_window_size(times, current_index, window_measures) ==
    LET sample_start == Max2(0, current_index - 2)
        sample_end == Min2(Len(times), current_index + 5)
    IN  IF sample_end <= sample_start THEN window_measures
        ELSE Max2(min_window_measures, Min2(max_window_measures, window_measures))

\* base_window_measures * (1 - overlap_ratio), the ratio in quarters
StepMeasures(window_measures, overlap) == (window_measures * (4 - overlap)) \div 4

\* the first index j in from..Len(times)-1 whose measure number reaches
\* `target` (in measure units), or None as <<>>
FirstMeasureAtLeast(times, from, target) ==
    LET hits == {j \in from..(Len(times) - 1) : times[j + 1][2] * MeasureUnit >= target}
    IN  IF hits = {} THEN None ELSE <<SetMin(hits)>>

\* the window that the iteration at index i appends, or None
WindowAt(times, i, window_measures, adaptive) ==
    LET window_start_time == times[i + 1][1]
        start_measure == times[i + 1][2]
        window_size == IF adaptive
                       THEN calculate_adaptive_window_size(times, i, window_measures)
                       ELSE window_measures
        target_end_measure == start_measure * MeasureUnit + window_size
        found == FirstMeasureAtLeast(times, i, target_end_measure)
        last == IF found # None THEN found[1] ELSE Len(times) - 1
        end_time == times[last + 1][1]
        end_measure == times[last + 1][2]
    IN  IF found = None /\ ~(Len(times) > i + 1) THEN None
        ELSE IF end_time # 0 /\ end_time > window_start_time
        THEN [start_time |-> window_start_time,
              end_time |-> end_time,
              start_measure |-> start_measure * MeasureUnit,
              end_measure |-> end_measure * MeasureUnit,
              window_size_measures |-> window_size,
              center_time |-> (window_start_time + end_time) \div 2,
              center_measure |-> ((start_measure + end_measure) * MeasureUnit) \div 2]
        ELSE None

\* the next index without the cap at i + 1, the search starting at i
NextIndexWithoutCap(times, i, step_measures) ==
    LET next_measure == times[i + 1][2] * MeasureUnit + step_measures
        found == FirstMeasureAtLeast(times, i, next_measure)
    IN  IF found # None THEN found[1] ELSE i + Max2(1, step_measures \div MeasureUnit)

\* "Move to next window position": the index of the next iteration
NextIndex(times, i, step_measures) ==
    LET next_measure == times[i + 1][2] * MeasureUnit + step_measures
        found == FirstMeasureAtLeast(times, i + 1, next_measure)
        next_i == IF found # None THEN found[1]
                  ELSE i + Max2(1, step_measures \div MeasureUnit)
    IN  Min2(next_i, i + 1)

(***************************************************************************)
(* _fallback_time_based_analysis                                           *)
(***************************************************************************)
RECURSIVE FallbackWindows(_, _, _)
FallbackWindows(current_time, end_time, measure_estimate) ==
    IF current_time < end_time - 2 * TicksPerSecond
    THEN <<[start_time |-> current_time,
            end_time |-> current_time + 2 * TicksPerSecond,
            start_measure |-> measure_estimate,
            end_measure |-> measure_estimate + MeasureUnit,
            window_size_measures |-> MeasureUnit,
            center_time |-> current_time + TicksPerSecond,
            center_measure |-> measure_estimate + MeasureUnit \div 2]>>
         \o FallbackWindows(current_time + TicksPerSecond, end_time,
                            measure_estimate + MeasureUnit \div 2)
    ELSE <<>>

fallback_time_based_analysis(doc, threshold) ==
    LET wins == FallbackWindows(StartTime(doc), EndTime(doc), MeasureUnit)
        points == Tup([k \in 1..Len(wins) |-> analyze_window(doc, wins[k], threshold)])
    IN  SelectSeq(points, LAMBDA point : point # None)

(***************************************************************************)
(* The documents analysed.  Pieces are built from four-second segments, a  *)
(* segment being a sustained triad or the same triad as one-second notes;  *)
(* every onset lies on the quarter-second grid.                            *)
(***************************************************************************)
Seconds(n) == n * TicksPerSecond

Chord(pitches, from, to, velocity) ==
    Tup([k \in 1..Len(pitches) |-> MidiNote(from, to, pitches[k], velocity)])

\* the triad upwards, one note a second, closing on the octave of its first note
Arpeggio(pitches, from, velocity) ==
    Tup([k \in 1..4 |->
        MidiNote(from + Seconds(k - 1), from + Seconds(k),
                 IF k <= 3 THEN pitches[k] ELSE pitches[1] + 12, velocity)])

CMajorTriad == <<60, 64, 67>>
AMinorTriad == <<69, 72, 76>>
GMajorTriad == <<67, 71, 74>>
Cluster == <<60, 61, 62, 63>>

SegmentKinds == {"C chord", "Am chord", "C arp", "Am arp"}

Segment(kind, from) ==
    IF kind = "C chord" THEN Chord(CMajorTriad, from, from + Seconds(4), 64)
    ELSE IF kind = "Am chord" THEN Chord(AMinorTriad, from, from + Seconds(4), 64)
    ELSE IF kind = "C arp" THEN Arpeggio(CMajorTriad, from, 64)
    ELSE Arpeggio(AMinorTriad, from, 64)

Track(notes) == [muted |-> FALSE, is_drum |-> FALSE, notes |-> notes]

NoteLists ==
    {Segment(a, 0) \o Segment(b, Seconds(4)) : a, b \in SegmentKinds}
    \cup {Arpeggio(CMajorTriad, 0, 64) \o Arpeggio(GMajorTriad, Seconds(4), 64),
          Chord(Cluster, 0, Seconds(8), 64),
          Chord(CMajorTriad, 0, Seconds(8), 0),
          Chord(CMajorTriad, 0, 0, 64)}

TrackLists ==
    {<<Track(notes)>> : notes \in NoteLists}
    \cup {<<>>,
          <<[muted |-> TRUE, is_drum |-> FALSE, notes |-> Chord(Cluster, 0, Seconds(8), 64)],
            Track(Segment("C arp", 0)),
            [muted |-> FALSE, is_drum |-> TRUE, notes |-> Segment("Am arp", Seconds(4))]>>}

\* <<time_signatures, tempo_changes>>: none; 4/4 at 240 bpm; 4/4 at the default tempo
Timings == {<<<<>>, <<>>>>, <<<<<<0, 4, 4>>>>, <<<<0, 240>>>>>>, <<<<<<0, 4, 4>>>>, <<>>>>}

Documents ==
    {[tracks |-> tracks, time_signatures |-> timing[1], tempo_changes |-> timing[2],
      pm_key |-> None] : tracks \in TrackLists, timing \in Timings}
    \cup {[tracks |-> <<Track(Segment("C arp", 0) \o Segment("Am arp", Seconds(4)))>>,
           time_signatures |-> <<<<0, 4, 4>>>>, tempo_changes |-> <<<<0, 240>>>>,
           pm_key |-> <<5, "major">>]}

(***************************************************************************)
(* The analyzers that the source constructs: SlidingWindowKeyAnalyzer()    *)
(* and the jazz and classical settings of analyze_with_adaptation.         *)
(***************************************************************************)
AnalyzerConfigs ==
    {[base_window_measures |-> 2 * MeasureUnit, overlap_ratio |-> 2,
      confidence_threshold |-> (65 * Scale) \div 100, stability_threshold |-> 3,
      adaptive_window |-> TRUE],
     [base_window_measures |-> MeasureUnit, overlap_ratio |-> 3,
      confidence_threshold |-> (50 * Scale) \div 100, stability_threshold |-> 3,
      adaptive_window |-> TRUE],
     [base_window_measures |-> 4 * MeasureUnit, overlap_ratio |-> 2,
      confidence_threshold |-> (65 * Scale) \div 100, stability_threshold |-> 3,
      adaptive_window |-> TRUE]}

(***************************************************************************)
(* get_stability_report                                                    *)
(***************************************************************************)
KEY_NAMES == <<"C", "C#", "D", "D#", "E", "F", "F#", "G", "G#", "A", "A#", "B">>

get_key_name(root, mode) == KEY_NAMES[root + 1] \o " " \o mode

\* the thresholds 0.9, 0.7, 0.5, 0.3 on count / total, without division
classify_stability(count, total) ==
    IF 10 * count >= 9 * total THEN "Very Stable"
    ELSE IF 10 * count >= 7 * total THEN "Stable"
    ELSE IF 10 * count >= 5 * total THEN "Moderately Stable"
    ELSE IF 10 * count >= 3 * total THEN "Unstable"
    ELSE "Highly Unstable"

StabilityReport(names, confidences, primary_key, transitions) ==
    [primary_key |-> primary_key,
     stability_score |-> (Count(names, primary_key) * Scale) \div Len(names),
     key_distribution |-> [name \in {names[k] : k \in 1..Len(names)} |-> Count(names, name)],
     total_analysis_points |-> Len(names),
     number_of_transitions |-> Len(transitions),
     average_confidence |-> SumSeq(confidences) \div Len(names),
     stability_classification |-> classify_stability(Count(names, primary_key), Len(names))]

get_stability_report(points, transitions) ==
    IF points = <<>> THEN [error |-> "No analysis points available"]
    ELSE LET names == Tup([k \in 1..Len(points) |->
                              get_key_name(points[k].root, points[k].mode)])
             confidences == Tup([k \in 1..Len(points) |-> points[k].confidence])
         IN  StabilityReport(names, confidences, FirstMostCommon(names), transitions)

(***************************************************************************)
(* State                                                                   *)
(***************************************************************************)
MaxMeasures == 8
MaxRuns == 2

VARIABLES
    document,              \* the MidiDocument handed to analyze_by_measures
    base_window_measures,  \* in 1 / MeasureUnit measure
    overlap_ratio,         \* in quarters
    confidence_threshold,  \* in 1 / Scale
    stability_threshold,
    adaptive_window,
    analysis_points,
    stability_buffer,
    current_stable_key,
    key_transitions,
    pc,                    \* the position inside analyze_by_measures
    timing,                \* the locals of _get_measure_times
    measure_times,
    windows,
    i,                     \* loop index of _calculate_measure_windows
    w,                     \* number of windows already analysed
    returned,              \* the value the last call returned
    runs,                  \* calls of analyze_by_measures that have returned
    history,               \* what each finished call left: timeline and transitions
    classified,            \* the last call of _classify_modulation_type
    called                 \* the last call of another function: its arguments and result

config == <<base_window_measures, overlap_ratio, confidence_threshold,
            stability_threshold, adaptive_window>>
tracking == <<stability_buffer, current_stable_key, key_transitions>>
locals == <<timing, measure_times, windows, i, w>>
calls == <<classified, called>>
vars == <<document, config, analysis_points, tracking, pc, locals, returned, runs,
          history, calls>>

Tracking ==
    [stability_buffer |-> stability_buffer,
     current_stable_key |-> current_stable_key,
     key_transitions |-> key_transitions]

\* SlidingWindowKeyAnalyzer.__init__
Constructed(cfg) ==
    /\ base_window_measures = cfg.base_window_measures
    /\ overlap_ratio = cfg.overlap_ratio
    /\ confidence_threshold = cfg.confidence_threshold
    /\ stability_threshold = cfg.stability_threshold
    /\ adaptive_window = cfg.adaptive_window
    /\ analysis_points = <<>>
    /\ stability_buffer = <<>>
    /\ current_stable_key = None
    /\ key_transitions = <<>>

NoLocals ==
    /\ timing = MeasureLoopStart([tracks |-> <<>>, time_signatures |-> <<>>,
                                  tempo_changes |-> <<>>, pm_key |-> None])
    /\ measure_times = <<>>
    /\ windows = <<>>
    /\ i = 0
    /\ w = 0

Init ==
    /\ document \in Documents
    /\ \E cfg \in AnalyzerConfigs : Constructed(cfg)
    /\ pc = "idle"
    /\ NoLocals
    /\ returned = None
    /\ runs = 0
    /\ history = <<>>
    /\ classified = None
    /\ called = None

(***************************************************************************)
(* analyze_by_measures, one action per loop iteration                      *)
(***************************************************************************)
\* lines 79-84: reset the analysis state and enter _get_measure_times
Start ==
    /\ pc \in {"idle", "done"}
    /\ runs < MaxRuns
    /\ analysis_points' = <<>>
    /\ stability_buffer' = <<>>
    /\ current_stable_key' = None
    /\ timing' = MeasureLoopStart(document)
    /\ measure_times' = <<>>
    /\ windows' = <<>>
    /\ i' = 0
    /\ w' = 0
    /\ pc' = "measures"
    /\ UNCHANGED <<document, config, key_transitions, returned, runs, history, calls>>

\* one iteration of "while current_time < end_time"
MeasureStep ==
    /\ pc = "measures"
    /\ timing.current_time < timing.end_time
    /\ timing.measure_number <= MaxMeasures
    /\ measure_times' = Append(measure_times, <<timing.current_time, timing.measure_number>>)
    /\ timing' = MeasureLoopStep(document, timing)
    /\ UNCHANGED <<document, config, analysis_points, tracking, pc, windows, i, w,
                   returned, runs, history, calls>>

\* the fallback path chosen by the absence of time signatures
MeasuresDoneByMetadata ==
    /\ pc = "measures"
    /\ ~(timing.current_time < timing.end_time)
    /\ pc' = IF document.time_signatures = <<>> THEN "fallback" ELSE "windows"
    /\ UNCHANGED <<document, config, analysis_points, tracking, locals, returned, runs,
                   history, calls>>

\* lines 85-89: _get_measure_times has returned
MeasuresDone ==
    /\ pc = "measures"
    /\ ~(timing.current_time < timing.end_time)
    /\ pc' = IF measure_times = <<>> THEN "fallback" ELSE "windows"
    /\ UNCHANGED <<document, config, analysis_points, tracking, locals, returned, runs,
                   history, calls>>

\* line 86: return self._fallback_time_based_analysis(document)
Fallback ==
    /\ pc = "fallback"
    /\ returned' = fallback_time_based_analysis(document, confidence_threshold)
    /\ runs' = runs + 1
    /\ history' = Append(history, [timeline |-> returned', transitions |-> key_transitions])
    /\ pc' = "done"
    /\ UNCHANGED <<document, config, analysis_points, tracking, locals, calls>>

\* one iteration of "while i < len(measure_times) - 1"
WindowStep ==
    /\ pc = "windows"
    /\ Len(measure_times) >= 2
    /\ i < Len(measure_times) - 1
    /\ LET window_info == WindowAt(measure_times, i, base_window_measures, adaptive_window)
       IN  windows' = IF window_info = None THEN windows ELSE Append(windows, window_info)
    /\ i' = NextIndex(measure_times, i, StepMeasures(base_window_measures, overlap_ratio))
    /\ UNCHANGED <<document, config, analysis_points, tracking, pc, timing, measure_times,
                   w, returned, runs, history, calls>>

\* _calculate_measure_windows returns
WindowsDone ==
    /\ pc = "windows"
    /\ Len(measure_times) < 2 \/ ~(i < Len(measure_times) - 1)
    /\ pc' = "analyze"
    /\ UNCHANGED <<document, config, analysis_points, tracking, locals, returned, runs,
                   history, calls>>

\* the stability tracking updated for a point that is not appended
TrackOnly(analysis_point) ==
    \E after \in {update_stability_tracking(Tracking, analysis_point, stability_threshold,
                                            confidence_threshold, base_window_measures)} :
        /\ analysis_points' = analysis_points
        /\ stability_buffer' = after.stability_buffer
        /\ current_stable_key' = after.current_stable_key
        /\ key_transitions' = after.key_transitions

\* lines 93-95: append the point and update the stability tracking
Consume(analysis_point) ==
    \E after \in {update_stability_tracking(Tracking, analysis_point, stability_threshold,
                                            confidence_threshold, base_window_measures)} :
        /\ analysis_points' = Append(analysis_points, analysis_point)
        /\ stability_buffer' = after.stability_buffer
        /\ current_stable_key' = after.current_stable_key
        /\ key_transitions' = after.key_transitions

\* lines 91-95: the body of "for window_info in windows"
AnalyzeStep ==
    /\ pc = "analyze"
    /\ w < Len(windows)
    /\ w' = w + 1
    /\ \E analysis_point \in {analyze_window(document, windows[w + 1], confidence_threshold)} :
          IF analysis_point = None
          THEN UNCHANGED <<analysis_points, tracking>>
          ELSE Consume(analysis_point)
    /\ UNCHANGED <<document, config, pc, timing, measure_times, windows, i, returned,
                   runs, history, calls>>

\* lines 97-100: smooth and return
\* the end of the run with the tracker fed once more, by the last point
\* of the smoothed timeline
SmoothThenTrack ==
    /\ pc = "analyze"
    /\ w >= Len(windows)
    /\ analysis_points' = smooth_key_analysis(analysis_points, confidence_threshold)
    /\ returned' = analysis_points'
    /\ runs' = runs + 1
    /\ history' = Append(history, [timeline |-> returned', transitions |-> key_transitions])
    /\ pc' = "done"
    /\ stability_buffer' =
           IF analysis_points = <<>> THEN stability_buffer
           ELSE DequeAppend(stability_buffer,
                            <<PointKey(analysis_points'[Len(analysis_points)]),
                              analysis_points'[Len(analysis_points)].confidence>>,
                            stability_threshold)
    /\ UNCHANGED <<document, config, current_stable_key, key_transitions, locals, calls>>

SmoothAndReturn ==
    /\ pc = "analyze"
    /\ w >= Len(windows)
    /\ analysis_points' = smooth_key_analysis(analysis_points, confidence_threshold)
    /\ returned' = analysis_points'
    /\ runs' = runs + 1
    /\ history' = Append(history, [timeline |-> returned', transitions |-> key_transitions])
    /\ pc' = "done"
    /\ UNCHANGED <<document, config, tracking, locals, calls>>

\* get_stability_report, called while no analysis is running
GetStabilityReport ==
    /\ pc \in {"idle", "done"}
    /\ called' = [operation |-> "get_stability_report",
                  total_analysis_points |-> Len(analysis_points),
                  result |-> get_stability_report(analysis_points, key_transitions)]
    /\ UNCHANGED <<document, config, analysis_points, tracking, pc, locals, returned,
                   runs, history, classified>>

Next ==
    \/ Start
    \/ MeasureStep
    \/ MeasuresDone
    \/ Fallback
    \/ WindowStep
    \/ WindowsDone
    \/ AnalyzeStep
    \/ SmoothAndReturn
    \/ GetStabilityReport

Spec == Init /\ [][Next]_vars

(***************************************************************************)
(* Properties of analyze_by_measures                                       *)
(***************************************************************************)
\* SlidingWindowKeyAnalyzer() with the constructor's defaults
DefaultAnalyzer ==
    /\ base_window_measures = 2 * MeasureUnit
    /\ overlap_ratio = 2
    /\ confidence_threshold = (65 * Scale) \div 100
    /\ stability_threshold = 3
    /\ adaptive_window

\* the pitch classes of the notes that sound in [from, to)
PitchClassesIn(doc, from, to) ==
    LET notes == AllNotes(doc.tracks)
    IN  {notes[k].pitch % 12 :
            k \in {n \in 1..Len(notes) : notes[n].start < to /\ notes[n].end > from}}

\* eight seconds of music, C E G for four seconds and then A C E, in 4/4 at
\* 240 beats a minute: a measure lasts one second, so that the default
\* analyzer's two-measure windows last two seconds and overlap by half
ScenarioPiece(doc) ==
    /\ doc.time_signatures = <<<<0, 4, 4>>>>
    /\ doc.tempo_changes = <<<<0, 240>>>>
    /\ doc.pm_key = None
    /\ Len(doc.tracks) = 1
    /\ ~doc.tracks[1].muted /\ ~doc.tracks[1].is_drum
    /\ EndTime(doc) = Seconds(8)
    /\ PitchClassesIn(doc, 0, Seconds(4)) = {0, 4, 7}
    /\ PitchClassesIn(doc, Seconds(4), Seconds(8)) = {9, 0, 4}

CMajor == <<0, "major">>
AMinor == <<9, "minor">>

\* C3: the first call on the scenario piece returns a timeline that begins
\* with (0, major) points of confidence at least 0.65 and continues with
\* (9, minor) points only, and leaves exactly one transition, from (0, major)
\* to (9, minor), of type "Relative Minor".
C3_EndToEndScenario ==
    (pc = "done" /\ runs = 1 /\ DefaultAnalyzer /\ ScenarioPiece(document)) =>
        /\ \E n \in 1..(Len(returned) - 1) :
              /\ \A k \in 1..n :
                    /\ PointKey(returned[k]) = CMajor
                    /\ returned[k].confidence >= (65 * Scale) \div 100
              /\ \A k \in (n + 1)..Len(returned) : PointKey(returned[k]) = AMinor
        /\ Len(key_transitions) = 1
        /\ key_transitions[1].from_key = CMajor
        /\ key_transitions[1].to_key = AMinor
        /\ key_transitions[1].modulation_type = "Relative Minor"

\* C4: a call leaves what the previous call on the same document left: the
\* same timeline and the same transition list.
C4_NoCrossRunSharing ==
    \A n \in 2..Len(history) : history[n] = history[n - 1]

\* C5: the measure boundaries derived so far have strictly increasing times.
C5_MeasureTimesIncrease ==
    \A k \in 2..Len(measure_times) : measure_times[k - 1][1] < measure_times[k][1]

\* the window holds pitch-class weight, and no key correlates with its
\* profile at `threshold` or above
LowConfidence(doc, window, threshold) ==
    LET pitch_weights == PitchWeights(doc, window[1], window[2])
    IN  /\ SumSeq(pitch_weights) # 0
        /\ LET pitch_profile == Normalize(pitch_weights)
           IN  LET best == BestKey(pitch_profile)
               IN  ~CorrMeets(best.correlation, threshold)

\* C7: no point of the timeline stems from a window whose best correlation
\* is below confidence_threshold.
C7_LowConfidenceGating ==
    \A k \in 1..Len(analysis_points) :
        ~LowConfidence(document, analysis_points[k].window, confidence_threshold)

\* the window holds no pitch-class weight at all
NoEvidence(doc, window) ==
    SumSeq(PitchWeights(doc, window[1], window[2])) = 0

\* C8: no point of the timeline stems from a window without pitch-class weight.
C8_NoEvidenceNoPoint ==
    \A k \in 1..Len(analysis_points) :
        ~NoEvidence(document, analysis_points[k].window)

NoTimingMetadata(doc) == doc.time_signatures = <<>> /\ doc.tempo_changes = <<>>

MaxStabilityThreshold == 3
MaxUpdates == 5

EmptyDocument ==
    [tracks |-> <<>>, time_signatures |-> <<>>, tempo_changes |-> <<>>, pm_key |-> None]

TrackerConfigs ==
    {[base_window_measures |-> 2 * MeasureUnit, overlap_ratio |-> 2,
      confidence_threshold |-> (65 * Scale) \div 100, stability_threshold |-> n,
      adaptive_window |-> TRUE] : n \in 1..MaxStabilityThreshold}

TrackerKeys == {<<0, "major">>, <<9, "minor">>, <<7, "major">>}
TrackerConfidences == {(4 * Scale) \div 10, (8 * Scale) \div 10}

\* the n-th point of a timeline, one second after the one before
PointAt(n, key, confidence) ==
    [time |-> Seconds(n),
     measure |-> n,
     root |-> key[1],
     mode |-> key[2],
     confidence |-> confidence,
     analysis_method |-> "combined",
     supporting_evidence |-> [prettymidi |-> None,
                              pitch_class |-> <<key[1], key[2], confidence>>,
                              harmonic |-> None,
                              melodic |-> None],
     window_size |-> 2 * MeasureUnit,
     window |-> <<Seconds(n - 1), Seconds(n + 1)>>]

InitTracker ==
    /\ document = EmptyDocument
    /\ \E cfg \in TrackerConfigs : Constructed(cfg)
    /\ pc = "analyze"
    /\ NoLocals
    /\ returned = None
    /\ runs = 0
    /\ history = <<>>
    /\ classified = None
    /\ called = None

\* lines 93-95 for an arbitrary analysis point
UpdateStability ==
    /\ pc = "analyze"
    /\ Len(analysis_points) < MaxUpdates
    /\ \E key \in TrackerKeys, confidence \in TrackerConfidences :
          \E analysis_point \in {PointAt(Len(analysis_points) + 1, key, confidence)} :
              Consume(analysis_point)
    /\ UNCHANGED <<document, config, pc, locals, returned, runs, history, calls>>

NextTracker == UpdateStability

SpecTracker == InitTracker /\ [][NextTracker]_vars

\* how often `key` occurs in the buffer
Occurrences(buffer, key) == Cardinality({k \in 1..Len(buffer) : buffer[k][1] = key})

\* no key occurs in the buffer more often than `key`
MostFrequent(buffer, key) ==
    \A k \in 1..Len(buffer) : Occurrences(buffer, buffer[k][1]) <= Occurrences(buffer, key)

\* the most frequent key of a non-empty buffer; of several, the one whose
\* first entry is the oldest
Leader(buffer) ==
    buffer[CHOOSE k \in 1..Len(buffer) :
               /\ MostFrequent(buffer, buffer[k][1])
               /\ \A j \in 1..(k - 1) : ~MostFrequent(buffer, buffer[j][1])][1]

\* the confidences of the entries of `key` average to `threshold` or more
AverageMeets(buffer, key, threshold) ==
    SumSeq(Tup([k \in 1..Len(buffer) |-> IF buffer[k][1] = key THEN buffer[k][2] ELSE 0]))
        >= threshold * Occurrences(buffer, key)

PointConsumed == Len(analysis_points') = Len(analysis_points) + 1

\* C1 as stated: an update changes the stable key iff the buffer is full, its
\* most frequent key occurs stability_threshold - 1 times or more and differs
\* from the stable key; the stable key becomes that key.
C1_PromotionRule ==
    [][PointConsumed =>
        LET key == Leader(stability_buffer')
            promote == /\ Len(stability_buffer') = stability_threshold
                       /\ Occurrences(stability_buffer', key) >= stability_threshold - 1
                       /\ key # current_stable_key
        IN  /\ (current_stable_key' # current_stable_key) <=> promote
            /\ promote => current_stable_key' = key]_vars

\* C1: an update changes the stable key iff the buffer is full, its most
\* frequent key (the oldest of several) occurs stability_threshold - 1 times
\* or more, the confidences of that key's entries average to at least
\* confidence_threshold, and the key differs from the stable key; the stable
\* key becomes that key.
C1_PromotionRuleWithConfidence ==
    [][PointConsumed =>
        LET key == Leader(stability_buffer')
            promote == /\ Len(stability_buffer') = stability_threshold
                       /\ Occurrences(stability_buffer', key) >= stability_threshold - 1
                       /\ AverageMeets(stability_buffer', key, confidence_threshold)
                       /\ key # current_stable_key
        IN  /\ (current_stable_key' # current_stable_key) <=> promote
            /\ promote => current_stable_key' = key]_vars

\* a buffer [A, A, B] of confident estimates has made A the stable key
C1_Witness ==
    /\ stability_threshold = 3
    /\ Len(stability_buffer) = 3
    /\ stability_buffer[1][1] = stability_buffer[2][1]
    /\ stability_buffer[3][1] # stability_buffer[1][1]
    /\ AverageMeets(stability_buffer, stability_buffer[1][1], confidence_threshold)
    /\ current_stable_key = stability_buffer[1][1]
    /\ Len(analysis_points) = 3

\* C2: an update that replaces a stable key K1 by K2 appends one transition
\* from K1 to K2 at the time of the point consumed; every other update leaves
\* the transition list as it is.
C2_TransitionEmission ==
    [][PointConsumed =>
        IF current_stable_key # None /\ current_stable_key' # current_stable_key
        THEN /\ Len(key_transitions') = Len(key_transitions) + 1
             /\ SubSeq(key_transitions', 1, Len(key_transitions)) = key_transitions
             /\ key_transitions'[Len(key_transitions')].from_key = current_stable_key
             /\ key_transitions'[Len(key_transitions')].to_key = current_stable_key'
             /\ key_transitions'[Len(key_transitions')].to_time =
                    analysis_points'[Len(analysis_points')].time
        ELSE key_transitions' = key_transitions]_vars

\* a stable key has been replaced twice under the default threshold
C2_Witness ==
    /\ stability_threshold = 3
    /\ Len(key_transitions) = 1
    /\ key_transitions[1].to_key = current_stable_key
    /\ key_transitions[1].to_time = analysis_points[Len(analysis_points)].time

(***************************************************************************)
(* _calculate_measure_windows on its own, for every measure list of up to  *)
(* MaxMeasures measures of one or two seconds and a piece of LongPiece     *)
(* one-second measures, window sizes from half a measure to four measures  *)
(* and one of ten measures, and every overlap in quarters from 0 to 1.     *)
(***************************************************************************)
LongPiece == 12

MeasureLists ==
    {Tup([k \in 1..n |-> <<(k - 1) * duration, k>>]) :
        n \in 0..MaxMeasures, duration \in {Seconds(1), Seconds(2)}}
    \cup {Tup([k \in 1..LongPiece |-> <<Seconds(k - 1), k>>])}

WindowConfigs ==
    {[base_window_measures |-> size, overlap_ratio |-> overlap,
      confidence_threshold |-> (65 * Scale) \div 100, stability_threshold |-> 3,
      adaptive_window |-> adaptive] :
        size \in {MeasureUnit \div 2, MeasureUnit, 2 * MeasureUnit, 4 * MeasureUnit,
                  10 * MeasureUnit},
        overlap \in 0..4,
        adaptive \in BOOLEAN}

InitWindows ==
    /\ document = EmptyDocument
    /\ \E cfg \in WindowConfigs : Constructed(cfg)
    /\ pc = "windows"
    /\ timing = MeasureLoopStart(EmptyDocument)
    /\ measure_times \in MeasureLists
    /\ windows = <<>>
    /\ i = 0
    /\ w = 0
    /\ returned = None
    /\ runs = 0
    /\ history = <<>>
    /\ classified = None
    /\ called = None

NextWindows ==
    \/ WindowStep
    \/ WindowsDone

SpecWindows == InitWindows /\ [][NextWindows]_vars

\* C6: every iteration of the window loop moves the start index forward,
\* never past the last measure, and appends at most one window.
C6_ForwardProgress ==
    [][(pc = "windows" /\ pc' = "windows") =>
        /\ i' > i
        /\ i' <= Len(measure_times) - 1
        /\ \/ windows' = windows
           \/ /\ Len(windows') = Len(windows) + 1
              /\ SubSeq(windows', 1, Len(windows)) = windows]_vars

\* the loop has advanced twice with windows that overlap completely
C6_Witness ==
    /\ pc = "windows"
    /\ overlap_ratio = 4
    /\ i = 2
    /\ Len(windows) = 2

(***************************************************************************)
(* _classify_modulation_type on its own, for every pair of keys            *)
(***************************************************************************)
InitClassify ==
    /\ document = EmptyDocument
    /\ \E cfg \in TrackerConfigs : cfg.stability_threshold = 3 /\ Constructed(cfg)
    /\ pc = "idle"
    /\ NoLocals
    /\ returned = None
    /\ runs = 0
    /\ history = <<>>
    /\ classified = None
    /\ called = None

Classify ==
    /\ \E from_key \in Keys, to_key \in Keys :
          classified' = [from_key |-> from_key,
                         to_key |-> to_key,
                         modulation_type |-> classify_modulation_type(from_key, to_key)]
    /\ UNCHANGED <<document, config, analysis_points, tracking, pc, locals, returned,
                   runs, history, called>>

NextClassify == Classify

SpecClassify == InitClassify /\ [][NextClassify]_vars

ModulationTypes ==
    {"Dominant", "Subdominant", "Whole Step Up", "Whole Step Down",
     "Parallel Major", "Parallel Minor",
     "Modal (major to minor)", "Modal (minor to major)",
     "Relative Minor", "Relative Major", "Mode Change"}

\* C10: every call of the classifier returns one of the modulation types,
\* the same as the call before if that was for the same pair of keys, and
\* leaves the analyzer's state as it is.
C10_ClassifierTotal ==
    /\ [](classified # None => classified.modulation_type \in ModulationTypes)
    /\ [][classified' # classified =>
            /\ UNCHANGED <<config, analysis_points, tracking>>
            /\ (/\ classified # None
                /\ classified'.from_key = classified.from_key
                /\ classified'.to_key = classified.to_key)
               => classified'.modulation_type = classified.modulation_type]_vars

\* a pair that none of the named relations covers has been classified
C10_Witness ==
    /\ classified # None
    /\ classified.from_key = <<0, "major">>
    /\ classified.to_key = <<9, "minor">>
    /\ classified.modulation_type = "Mode Change"

\* C11: a modulation between keys of the same mode is labelled by the
\* interval (to.root - from.root) mod 12: 7 "Dominant", 5 "Subdominant",
\* 2 "Step-wise Up", 10 "Step-wise Down", 1 "Chromatic Up", 11 "Chromatic
\* Down", and any other interval "Parallel <Mode>".
C11_SameModeLabels ==
    (classified # None /\ classified.from_key[2] = classified.to_key[2]) =>
        LET interval == (classified.to_key[1] - classified.from_key[1]) % 12
        IN  classified.modulation_type =
                CASE interval = 7 -> "Dominant"
                  [] interval = 5 -> "Subdominant"
                  [] interval = 2 -> "Step-wise Up"
                  [] interval = 10 -> "Step-wise Down"
                  [] interval = 1 -> "Chromatic Up"
                  [] interval = 11 -> "Chromatic Down"
                  [] OTHER -> ParallelLabel(classified.from_key[2])

\* C12: a modulation between keys of different modes is labelled, in this
\* priority: same root "Modal (<from> to <to>)"; interval 3 from major to
\* minor "Relative Minor"; interval 9 from minor to major "Relative Major";
\* any other pair "Mode Change".  So (0, major) -> (3, minor) is "Relative
\* Minor" and (9, minor) -> (0, major), of interval 3, is not "Relative Major".
C12_DifferentModeLabels ==
    (classified # None /\ classified.from_key[2] # classified.to_key[2]) =>
        LET from_mode == classified.from_key[2]
            interval == (classified.to_key[1] - classified.from_key[1]) % 12
            label == classified.modulation_type
        IN  /\ label =
                CASE interval = 0 ->
                        IF from_mode = "major" THEN "Modal (major to minor)"
                        ELSE "Modal (minor to major)"
                  [] interval = 3 /\ from_mode = "major" -> "Relative Minor"
                  [] interval = 9 /\ from_mode = "minor" -> "Relative Major"
                  [] OTHER -> "Mode Change"
            /\ (classified.from_key = <<0, "major">> /\ classified.to_key = <<3, "minor">>)
                   => label = "Relative Minor"
            /\ (classified.from_key = <<9, "minor">> /\ classified.to_key = <<0, "major">>)
                   => label # "Relative Major"

\* A minor -> C major, the interval-3 pair of the claim, has been classified
C12_Witness ==
    /\ classified # None
    /\ classified.from_key = <<9, "minor">>
    /\ classified.to_key = <<0, "major">>
    /\ classified.modulation_type = "Mode Change"

(***************************************************************************)
(* The correlators on their own.  A call is [operation, pitch_weights,     *)
(* total_weight, root, mode, result, previous]: the 12-vector handed over  *)
(* is pitch_weights / total_weight, result is None until the call returns, *)
(* previous is None or the call of the same operation from which this one  *)
(* differs by a transposition of k semitones.  _calculate_key_correlation  *)
(* returns a double, and the search over the 24 keys a key and a double;   *)
(* the search is only entered with the weights divided by their positive   *)
(* total.                                                                  *)
(***************************************************************************)
\* utilities/calculate_key_correlations.py: template[root:] + template[:root]
TemplateFrom(template, root) == Tup([n \in 1..12 |-> template[((n - 1 + root) % 12) + 1]])

\* the list-based correlator of utilities/calculate_key_correlations.py, as
\* the real number its statements describe
utility_calculate_key_correlation(pitch_profile, root, mode) ==
    LET template == IF mode = "major" THEN MAJOR_KEY_PROFILE ELSE MINOR_KEY_PROFILE
        rotated_template == TemplateFrom(template, root)
        dp == Dev(pitch_profile)
        dt == Dev(rotated_template)
    IN  Quotient(Dot(dp, dt), Dot(dp, dp), Dot(dt, dt))

\* the loop over root and mode of analyze_key_context, with the list-based
\* correlator
RECURSIVE UtilityBestKeyFrom(_, _, _, _)
UtilityBestKeyFrom(pitch_profile, n, best_correlation, best_key) ==
    IF n > Len(KeyOrder) THEN [key |-> best_key, correlation |-> best_correlation]
    ELSE LET correlation ==
                 utility_calculate_key_correlation(pitch_profile, KeyOrder[n][1],
                                                   KeyOrder[n][2])
         IN  IF CorrGreater(correlation, best_correlation)
             THEN UtilityBestKeyFrom(pitch_profile, n + 1, correlation, KeyOrder[n])
             ELSE UtilityBestKeyFrom(pitch_profile, n + 1, best_correlation, best_key)

\* analyze_key_context for the counts of the pitch classes: None without
\* notes and below the confidence threshold 0.65
analyze_key_context(pitch_counts) ==
    LET best == UtilityBestKeyFrom(pitch_counts, 1, MinusOne, None)
    IN  IF SumSeq(pitch_counts) = 0 THEN None
        ELSE IF ~CorrMeets(best.correlation, (65 * Scale) \div 100) THEN None
        ELSE best

\* the profile of the same notes k semitones higher: the weight that
\* pitch_weights[note.pitch % 12] received goes to class (pitch + k) % 12
Transposed(pitch_profile, k) == Tup([c \in 1..12 |-> pitch_profile[((c - 1 - k) % 12) + 1]])

TriadProfile == <<1, 0, 0, 0, 1, 0, 0, 1, 0, 0, 0, 0>>
ScaleProfile == <<3, 0, 1, 0, 2, 1, 0, 2, 0, 1, 0, 1>>
TritoneProfile == <<1, 0, 0, 0, 0, 0, 1, 0, 0, 0, 0, 0>>
FlatProfile == <<1, 1, 1, 1, 1, 1, 1, 1, 1, 1, 1, 1>>
SilentProfile == <<0, 0, 0, 0, 0, 0, 0, 0, 0, 0, 0, 0>>
\* the weights that mirror the major template
MirrorProfile == Tup([c \in 1..12 |-> 700 - MAJOR_KEY_PROFILE[c]])

\* the weights over their total, as _analyze_pitch_class_profile divides them
OverTotal(pitch_weights) ==
    [pitch_weights |-> pitch_weights, total_weight |-> SumSeq(pitch_weights)]

\* the vectors given to _calculate_key_correlation; the last one is twelve
\* times 0.2
CorrelatorProfiles ==
    {OverTotal(TriadProfile), OverTotal(FlatProfile), OverTotal(MINOR_KEY_PROFILE),
     [pitch_weights |-> FlatProfile, total_weight |-> 5]}

\* the profiles the search over the 24 keys is entered with
SearchProfiles ==
    {OverTotal(ScaleProfile), OverTotal(TritoneProfile), OverTotal(FlatProfile),
     OverTotal(MINOR_KEY_PROFILE)}

\* the lists given to the list-based correlator, the zero vector among them
UtilityProfiles ==
    {[pitch_weights |-> pitch_weights, total_weight |-> Max2(1, SumSeq(pitch_weights))] :
        pitch_weights \in {TriadProfile, ScaleProfile, TritoneProfile, FlatProfile,
                           SilentProfile, MAJOR_KEY_PROFILE, MirrorProfile}}

CorrelatorCall(operation, profile, root, mode, previous) ==
    [operation |-> operation, pitch_weights |-> profile.pitch_weights,
     total_weight |-> profile.total_weight, root |-> root,
     mode |-> mode, result |-> None, previous |-> previous]

InitCorrelate ==
    /\ document = EmptyDocument
    /\ \E cfg \in AnalyzerConfigs :
          cfg.base_window_measures = 2 * MeasureUnit /\ Constructed(cfg)
    /\ pc = "idle"
    /\ NoLocals
    /\ returned = None
    /\ runs = 0
    /\ history = <<>>
    /\ classified = None
    /\ \/ \E profile \in CorrelatorProfiles, key \in Keys :
             called = CorrelatorCall("correlate", profile, key[1], key[2], None)
       \/ \E profile \in UtilityProfiles, key \in Keys :
             called = CorrelatorCall("utility_correlate", profile, key[1], key[2], None)
       \/ \E profile \in SearchProfiles :
             called = CorrelatorCall("best_key", profile, None, None, None)
       \/ \E profile \in UtilityProfiles :
             called = CorrelatorCall("analyze_key_context", profile, None, None, None)

Returns(result) ==
    /\ called' = [called EXCEPT !.result = result]
    /\ UNCHANGED <<document, config, analysis_points, tracking, pc, locals, returned,
                   runs, history, classified>>

\* _calculate_key_correlation returns
Correlate ==
    /\ called.operation = "correlate"
    /\ called.result = None
    /\ Returns(calculate_key_correlation_float64(
                   Normalised(called.pitch_weights, called.total_weight),
                   called.root, called.mode))

\* the list-based calculate_key_correlation returns
CorrelateUtility ==
    /\ called.operation = "utility_correlate"
    /\ called.result = None
    /\ Returns(utility_calculate_key_correlation(called.pitch_weights, called.root,
                                                 called.mode))

\* the loop over the 24 keys ends
SearchBestKey ==
    /\ called.operation = "best_key"
    /\ called.result = None
    /\ Returns(BestKey64(Normalised(called.pitch_weights, called.total_weight)))

\* analyze_key_context returns; a call that returns None is recorded as
\* [key |-> None]
AnalyzeKeyContext ==
    /\ called.operation = "analyze_key_context"
    /\ called.result = None
    /\ \E result \in {analyze_key_context(called.pitch_weights)} :
          Returns(IF result = None THEN [key |-> None] ELSE result)

\* the same operation is called on the evidence k semitones higher
Transpose ==
    /\ called.result # None
    /\ called.previous = None
    /\ \E k \in 1..11 :
          called' = CorrelatorCall(called.operation,
                                   [pitch_weights |-> Transposed(called.pitch_weights, k),
                                    total_weight |-> called.total_weight],
                                   IF called.operation \in {"best_key", "analyze_key_context"} THEN None
                                   ELSE (called.root + k) % 12,
                                   called.mode,
                                   [k |-> k, root |-> called.root,
                                    result |-> called.result])
    /\ UNCHANGED <<document, config, analysis_points, tracking, pc, locals, returned,
                   runs, history, classified>>

NextCorrelate ==
    Correlate \/ CorrelateUtility \/ SearchBestKey \/ AnalyzeKeyContext \/ Transpose

SpecCorrelate == InitCorrelate /\ [][NextCorrelate]_vars

\* two correlations are the same real number
CorrSame(a, b) == ~CorrGreater(a, b) /\ ~CorrGreater(b, a)

\* the key k semitones above the best key of the previous call
MovedKey ==
    <<(called.previous.result.key[1] + called.previous.k) % 12,
      called.previous.result.key[2]>>

\* C13 as stated: the correlation of the transposed profile with the
\* transposed key is the correlation of the profile with the key, and the
\* best key of the transposed profile is the best key moved by k semitones.
C13_RotationInvariance ==
    (called # None /\ called.result # None /\ called.previous # None) =>
        /\ called.operation = "correlate" => called.result = called.previous.result
        /\ called.operation = "best_key" => called.result.key = MovedKey

\* the keys whose correlation with the profile, as a real number, is the
\* greatest of the 24
KeysAttaining(pitch_profile) ==
    {key \in Keys :
        CorrSame(calculate_key_correlation(pitch_profile, key[1], key[2]),
                 BestKey(pitch_profile).correlation)}

\* 2^-48
Tolerance == FMul[Float64(1, 2^24), Float64(1, 2^24)]

\* two doubles that differ by at most the tolerance
Close(a, b) == FCmp([FSub[a, b] EXCEPT !.s = 0], Tolerance) <= 0

\* C13, amended: the correlation of the transposed profile with the
\* transposed key and the correlation of the profile with the key are the
\* same real number, and the two doubles returned for them differ by at most
\* 2^-48; the search returns for both profiles a key that attains the
\* greatest correlation, with doubles that differ by at most 2^-48, the
\* transposed best key attains the greatest correlation of the transposed
\* profile, and the search returns it whenever a single key attains it.
C13_RotationInvarianceUpToTies ==
    (called # None /\ called.result # None /\ called.previous # None) =>
        /\ called.operation = "correlate" =>
               /\ CorrSame(calculate_key_correlation(called.pitch_weights, called.root,
                                                     called.mode),
                           calculate_key_correlation(
                               Transposed(called.pitch_weights, 12 - called.previous.k),
                               called.previous.root, called.mode))
               /\ Close(called.result, called.previous.result)
        /\ called.operation = "best_key" =>
               /\ Close(called.result.correlation, called.previous.result.correlation)
               /\ MovedKey \in KeysAttaining(called.pitch_weights)
               /\ called.result.key \in KeysAttaining(called.pitch_weights)
               /\ Cardinality(KeysAttaining(called.pitch_weights)) = 1 =>
                      called.result.key = MovedKey

\* the C major triad a fourth higher has been correlated with F major, and
\* the scale profile a minor third higher has been searched
C13_Witness ==
    /\ called # None
    /\ called.result # None
    /\ called.previous # None
    /\ \/ /\ called.operation = "correlate"
          /\ called.pitch_weights = Transposed(TriadProfile, 5)
          /\ called.root = 5
          /\ called.mode = "major"
          /\ FCmp(called.result, FZero) > 0
       \/ /\ called.operation = "best_key"
          /\ called.pitch_weights = Transposed(ScaleProfile, 3)
          /\ called.result.key = <<3, "major">>

\* all twelve weights are the same: the profile has zero variance
IsFlat(pitch_profile) == \A c \in 1..12 : pitch_profile[c] = pitch_profile[1]

\* C14: for every profile of non-negative weights, every root and mode, each
\* correlator returns a number in [-1, 1], and exactly 0 when the profile has
\* zero variance; the search over the 24 keys returns a key for every profile.
C14_CorrelationBounds ==
    (called # None /\ called.result # None) =>
        /\ called.operation = "correlate" =>
               /\ FCmp(called.result, FOfInt[1]) <= 0
               /\ FCmp(called.result, FOfInt[-1]) >= 0
               /\ IsFlat(called.pitch_weights) => called.result = FZero
        /\ called.operation = "utility_correlate" =>
               /\ called.result.profile_variance > 0
               /\ called.result.template_variance > 0
               /\ BigCmp(BigMul(BigOf(Abs(called.result.numerator)),
                                BigOf(Abs(called.result.numerator))),
                         BigMul(BigOf(called.result.profile_variance),
                                BigOf(called.result.template_variance))) <= 0
               /\ IsFlat(called.pitch_weights) => called.result.numerator = 0
        /\ called.operation = "best_key" => called.result.key \in Keys

\* the best correlation of the window's pitch-class profile meets the threshold
ConfidentKey(doc, window, threshold) ==
    ~NoEvidence(doc, window) /\ ~LowConfidence(doc, window, threshold)

\* C15: a piece in which no window yields a confident key leaves an empty
\* timeline and an empty transition list, and get_stability_report then
\* returns the 'No analysis points available' marker, which names no
\* primary key.
C15_NoConfidentKeyAnywhere ==
    (/\ pc = "done"
     /\ \A k \in 1..Len(windows) :
           ~ConfidentKey(document, <<windows[k].start_time, windows[k].end_time>>,
                         confidence_threshold))
    => /\ returned = <<>>
       /\ analysis_points = <<>>
       /\ key_transitions = <<>>
       /\ (called # None /\ called.total_analysis_points = Len(analysis_points))
              => called.result = [error |-> "No analysis points available"]

(***************************************************************************)
(* Note construction on its own.  A call is [operation, start, end, pitch, *)
(* velocity, result]: result is None until the constructor returns, then   *)
(* the note it built.                                                      *)
(***************************************************************************)
\* suggestions/suggestion_types.py: the plain dataclass keeps its arguments
SuggestionMidiNote(pitch, velocity, start, end) ==
    [start |-> start, end |-> end, pitch |-> pitch, velocity |-> velocity]

NoteStarts == {-TicksPerSecond, 0, TicksPerSecond, 2 * TicksPerSecond}
NoteEnds == {0, TicksPerSecond, 2 * TicksPerSecond}
NotePitches == {-1, 60, 128}
NoteVelocities == {-1, 0, 64, 128}

InitNotes ==
    /\ document = EmptyDocument
    /\ \E cfg \in AnalyzerConfigs :
          cfg.base_window_measures = 2 * MeasureUnit /\ Constructed(cfg)
    /\ pc = "idle"
    /\ NoLocals
    /\ returned = None
    /\ runs = 0
    /\ history = <<>>
    /\ classified = None
    /\ \E operation \in {"MidiNote", "SuggestionMidiNote"},
          start \in NoteStarts, end \in NoteEnds,
          pitch \in NotePitches, velocity \in NoteVelocities :
          called = [operation |-> operation, start |-> start, end |-> end,
                    pitch |-> pitch, velocity |-> velocity, result |-> None]

\* core/midi_data.py: MidiNote(start, end, pitch, velocity) returns
ConstructNote ==
    /\ called.operation = "MidiNote"
    /\ called.result = None
    /\ Returns(MidiNote(called.start, called.end, called.pitch, called.velocity))

\* suggestions/suggestion_types.py: MidiNote(pitch, velocity, start, end) returns
ConstructSuggestionNote ==
    /\ called.operation = "SuggestionMidiNote"
    /\ called.result = None
    /\ Returns(SuggestionMidiNote(called.pitch, called.velocity, called.start, called.end))

NextNotes == ConstructNote \/ ConstructSuggestionNote

SpecNotes == InitNotes /\ [][NextNotes]_vars

\* C16: creating a note whose end is earlier than its start is rejected with
\* a validation error: the constructor never returns a note for it, neither
\* as given nor altered.
C16_MalformedNotesRejected ==
    (called # None /\ called.result # None /\ called.end < called.start) =>
        DOMAIN called.result = {"error"}

(***************************************************************************)
(* The smoothing pass on its own: the loop of analyze_by_measures over     *)
(* arbitrary analysis points, then _smooth_key_analysis and the return.    *)
(***************************************************************************)
MaxPoints == 5

SmoothKeys == {<<0, "major">>, <<9, "minor">>}
\* below, and exactly at, the default confidence_threshold + 0.1
SmoothConfidences == {(70 * Scale) \div 100, (75 * Scale) \div 100}

InitSmooth ==
    /\ document = EmptyDocument
    /\ \E cfg \in TrackerConfigs : Constructed(cfg)
    /\ pc = "analyze"
    /\ NoLocals
    /\ returned = None
    /\ runs = 0
    /\ history = <<>>
    /\ classified = None
    /\ called = None

\* lines 93-95 for an arbitrary analysis point
AppendPoint ==
    /\ pc = "analyze"
    /\ Len(analysis_points) < MaxPoints
    /\ \E key \in SmoothKeys, confidence \in SmoothConfidences :
          \E analysis_point \in {PointAt(Len(analysis_points) + 1, key, confidence)} :
              Consume(analysis_point)
    /\ UNCHANGED <<document, config, pc, locals, returned, runs, history, calls>>

NextSmooth == AppendPoint \/ SmoothAndReturn

SpecSmooth == InitSmooth /\ [][NextSmooth]_vars

\* the step is the smoothing pass
SmoothingStep == pc = "analyze" /\ pc' = "done"

\* C17: the smoothing pass visits the interior points in ascending order and
\* gives point i the key of point i-1 exactly when key(i-1) = key(i+1),
\* key(i) differs from it and confidence(i) < confidence_threshold + 0.1,
\* key(i-1) being the key the pass has left in point i-1; every other point
\* keeps its key, and nothing changes with fewer than three points.
C17_SmoothingRule ==
    [][SmoothingStep =>
         /\ Len(analysis_points') = Len(analysis_points)
         /\ Len(analysis_points) < 3 => analysis_points' = analysis_points
         /\ \A k \in 1..Len(analysis_points) :
               PointKey(analysis_points'[k]) =
                   IF /\ 1 < k
                      /\ k < Len(analysis_points)
                      /\ PointKey(analysis_points'[k - 1]) = PointKey(analysis_points[k + 1])
                      /\ PointKey(analysis_points[k]) # PointKey(analysis_points'[k - 1])
                      /\ analysis_points[k].confidence < confidence_threshold + Scale \div 10
                   THEN PointKey(analysis_points'[k - 1])
                   ELSE PointKey(analysis_points[k])]_vars

\* a pass has returned C, C, C, Am where the windows gave C, Am, C, Am: the
\* second point was smoothed and the third, whose neighbours were both Am
\* before the pass, was not
C17_Witness ==
    /\ pc = "done"
    /\ Len(analysis_points) = 4
    /\ PointKey(analysis_points[1]) = <<0, "major">>
    /\ PointKey(analysis_points[2]) = <<0, "major">>
    /\ analysis_points[2].supporting_evidence.pitch_class[2] = "minor"
    /\ PointKey(analysis_points[3]) = <<0, "major">>
    /\ PointKey(analysis_points[4]) = <<9, "minor">>

\* C19 as stated: the smoothing pass changes nothing except the root and
\* mode of interior points: the first and the last point, every other field
\* of every point, the number and order of the points, the stable key, the
\* stability buffer and the transition list stay as they are.
C19_SmoothingFrame ==
    [][SmoothingStep =>
         /\ UNCHANGED <<tracking, config>>
         /\ Len(analysis_points') = Len(analysis_points)
         /\ \A k \in 1..Len(analysis_points) :
               /\ analysis_points'[k] =
                      [analysis_points[k] EXCEPT !.root = analysis_points'[k].root,
                                                 !.mode = analysis_points'[k].mode]
               /\ k \in {1, Len(analysis_points)} => analysis_points'[k] = analysis_points[k]]_vars

\* C19, amended: the smoothing pass changes nothing except the root, the
\* mode and the analysis_method of interior points: a point whose key it
\* overwrites gets " (smoothed)" appended to its analysis_method, and every
\* other point, every other field, the number and order of the points, the
\* stable key, the stability buffer and the transition list stay as they are.
C19_SmoothingFrameWithMethod ==
    [][SmoothingStep =>
         /\ UNCHANGED <<tracking, config>>
         /\ Len(analysis_points') = Len(analysis_points)
         /\ \A k \in 1..Len(analysis_points) :
               \/ analysis_points'[k] = analysis_points[k]
               \/ /\ 1 < k
                  /\ k < Len(analysis_points)
                  /\ PointKey(analysis_points'[k]) # PointKey(analysis_points[k])
                  /\ analysis_points'[k] =
                         [analysis_points[k] EXCEPT
                              !.root = analysis_points'[k].root,
                              !.mode = analysis_points'[k].mode,
                              !.analysis_method = @ \o " (smoothed)"]]_vars

\* a pass has overwritten a point of a run that has a stable key and a
\* recorded transition
C19_Witness ==
    /\ pc = "done"
    /\ current_stable_key # None
    /\ key_transitions # <<>>
    /\ \E k \in 1..Len(analysis_points) :
          analysis_points[k].analysis_method = "combined (smoothed)"

\* the stability tracker is updated by this step
TrackerUpdated ==
    stability_buffer' # stability_buffer /\ stability_buffer' # <<>>

\* what the tracker is fed is the newest point of the timeline, as the window
\* analysis made it and later than every point before it
FedUnsmoothedInOrder ==
    /\ pc = "analyze"
    /\ pc' = "analyze"
    /\ w' = w + 1
    /\ Len(analysis_points') = Len(analysis_points) + 1
    /\ SubSeq(analysis_points', 1, Len(analysis_points)) = analysis_points
    /\ LET newest == analysis_points'[Len(analysis_points')]
       IN  /\ newest = analyze_window(document, windows[w'], confidence_threshold)
           /\ stability_buffer'[Len(stability_buffer')] =
                  <<PointKey(newest), newest.confidence>>
           /\ \A k \in 1..Len(analysis_points) : analysis_points[k].time < newest.time

\* C18 as stated: every analysis run executes the smoothing pass once, as
\* its last step, after the last window has been analysed and fed to the
\* stability tracker; the tracker is not updated during or after the pass,
\* so it only sees unsmoothed keys in window order.
C18_SmoothingOrder ==
    [][/\ (pc # "done" /\ pc' = "done") => SmoothingStep
       /\ SmoothingStep => (w = Len(windows) /\ UNCHANGED tracking)
       /\ TrackerUpdated => FedUnsmoothedInOrder]_vars

\* C18, amended: a run that windows by measures executes the smoothing pass
\* once, as its last step, after the last window has been analysed and fed
\* to the stability tracker; the tracker is not updated during or after the
\* pass, so it only sees unsmoothed keys in window order.  A run on the
\* fallback path ends without a smoothing pass and without any update of
\* the tracker or of the analyzer's timeline.
C18_SmoothingOrderByMeasures ==
    [][/\ (pc # "done" /\ pc' = "done") =>
              \/ SmoothingStep
              \/ pc = "fallback" /\ UNCHANGED <<analysis_points, tracking>>
       /\ SmoothingStep => (w = Len(windows) /\ UNCHANGED tracking)
       /\ TrackerUpdated => FedUnsmoothedInOrder]_vars

\* a run by measures has returned after feeding the tracker enough points
\* for a stable key
C18_Witness ==
    /\ pc = "done"
    /\ windows # <<>>
    /\ w = Len(windows)
    /\ Len(analysis_points) >= 3
    /\ current_stable_key # None

\* C20: each window after the first starts at the first measure boundary at
\* or after the start measure of the window before it plus
\* base_window_measures * (1 - overlap_ratio).
C20_WindowStep ==
    \A k \in 2..Len(windows) :
        LET target == windows[k - 1].start_measure
                          + StepMeasures(base_window_measures, overlap_ratio)
        IN  /\ windows[k].start_measure >= target
            /\ \A j \in 1..Len(measure_times) :
                  measure_times[j][2] * MeasureUnit >= target
                      => windows[k].start_measure <= measure_times[j][2] * MeasureUnit

(***************************************************************************)
(* Coverage of the time bounds by the windows                              *)
(***************************************************************************)
\* every instant of [from, to) lies in a window [start_time, end_time); it is
\* enough to look at `from` and at the instants where a window ends
Covered(wins, from, to) ==
    \A t \in {from} \cup {wins[k].end_time : k \in 1..Len(wins)} :
        (from <= t /\ t < to) =>
            \E k \in 1..Len(wins) : wins[k].start_time <= t /\ t < wins[k].end_time

\* C21: the windows that _calculate_measure_windows returns cover every
\* instant from 0 to the end of the last note, so that a piece shorter than
\* one measure has a window too.
C21_MeasureCoverage ==
    pc = "analyze" => Covered(windows, 0, EndTime(document))

(***************************************************************************)
(* _fallback_time_based_analysis on its own: the method called on a        *)
(* document, whatever its time bounds.  A call is [operation, windows,     *)
(* result]: the windows the loop handed to _analyze_window and the points  *)
(* returned.                                                               *)
(***************************************************************************)
InitFallback ==
    /\ document \in Documents
    /\ \E cfg \in AnalyzerConfigs : Constructed(cfg)
    /\ pc = "idle"
    /\ NoLocals
    /\ returned = None
    /\ runs = 0
    /\ history = <<>>
    /\ classified = None
    /\ called = None

\* analyzer._fallback_time_based_analysis(document)
FallbackAnalysis ==
    /\ called = None
    /\ called' = [operation |-> "fallback_time_based_analysis",
                  windows |-> FallbackWindows(StartTime(document), EndTime(document),
                                              MeasureUnit),
                  result |-> fallback_time_based_analysis(document, confidence_threshold)]
    /\ UNCHANGED <<document, config, analysis_points, tracking, pc, locals, returned,
                   runs, history, classified>>

NextFallback == FallbackAnalysis

SpecFallback == InitFallback /\ [][NextFallback]_vars

\* C22: the fallback path analyses the windows [start + k, start + k + 2) for
\* k = 0, 1, 2, ... and these windows cover every instant of the time bounds
\* [start, end), also when end - start is at most two seconds.
C22_FallbackCoverage ==
    called # None =>
        /\ \A k \in 1..Len(called.windows) :
              /\ called.windows[k].start_time = StartTime(document) + Seconds(k - 1)
              /\ called.windows[k].end_time = StartTime(document) + Seconds(k + 1)
        /\ Covered(called.windows, StartTime(document), EndTime(document))

(***************************************************************************)
(* Adaptive and fixed window sizes                                         *)
(***************************************************************************)
RECURSIVE WindowsFrom(_, _, _, _, _)
\* the windows that the loop appends from index n on
WindowsFrom(times, n, window_measures, overlap, adaptive) ==
    IF ~(n < Len(times) - 1) THEN <<>>
    ELSE LET window_info == WindowAt(times, n, window_measures, adaptive)
         IN  (IF window_info = None THEN <<>> ELSE <<window_info>>)
             \o WindowsFrom(times, NextIndex(times, n, StepMeasures(window_measures, overlap)),
                            window_measures, overlap, adaptive)

\* _calculate_measure_windows: the list it returns
calculate_measure_windows(times, window_measures, overlap, adaptive) ==
    IF Len(times) < 2 THEN <<>>
    ELSE WindowsFrom(times, 0, window_measures, overlap, adaptive)

\* the start and end times of a window list
Spans(wins) == Tup([k \in 1..Len(wins) |-> <<wins[k].start_time, wins[k].end_time>>])

\* C23: an analyzer with adaptive_window enabled uses window size
\* base_window_measures for every window and returns windows with the same
\* start and end times as the same analyzer with adaptive_window disabled.
C23_AdaptiveDegrades ==
    (pc = "analyze" /\ adaptive_window) =>
        /\ \A k \in 1..Len(windows) :
              windows[k].window_size_measures = base_window_measures
        /\ Spans(windows) = Spans(calculate_measure_windows(measure_times,
                                      base_window_measures, overlap_ratio, FALSE))

(***************************************************************************)
(* The combination rule with the reliability of each method                *)
(***************************************************************************)
Methods == <<"prettymidi", "pitch_class", "harmonic", "melodic">>

\* the dictionary method_weights of _combine_analyses, in tenths
method_weights == [prettymidi |-> 8, pitch_class |-> 10, harmonic |-> 9, melodic |-> 7]

\* confidence x method reliability, summed over the methods that returned `key`
ReliabilityVotes(supporting_evidence, key) ==
    SumSeq(Tup([n \in 1..Len(Methods) |->
        IF /\ supporting_evidence[Methods[n]] # None
           /\ ResultKey(supporting_evidence[Methods[n]]) = key
        THEN supporting_evidence[Methods[n]][3] * method_weights[Methods[n]]
        ELSE 0]))

\* confidence x method reliability, summed over all methods that returned a key
ReliabilityTotal(supporting_evidence) ==
    SumSeq(Tup([n \in 1..Len(Methods) |->
        IF supporting_evidence[Methods[n]] # None
        THEN supporting_evidence[Methods[n]][3] * method_weights[Methods[n]]
        ELSE 0]))

\* C24: the key of a point is the key with the highest sum of confidence x
\* method reliability over the evidence of its window, and the confidence of
\* the point is that sum divided by the sum over all candidates (here to the
\* thousandth below), a number in (0, 1].
C24_EvidenceCombination ==
    pc = "analyze" =>
        \A k \in 1..Len(analysis_points) :
            LET point == analysis_points[k]
            IN  /\ \A key \in Keys :
                      ReliabilityVotes(point.supporting_evidence, key)
                          <= ReliabilityVotes(point.supporting_evidence, PointKey(point))
                /\ point.confidence =
                       (Scale * ReliabilityVotes(point.supporting_evidence, PointKey(point)))
                           \div ReliabilityTotal(point.supporting_evidence)
                /\ point.confidence > 0
                /\ point.confidence <= Scale

(***************************************************************************)
(* The tie-break of the search over the 24 keys                            *)
(***************************************************************************)
\* the 24 doubles that _calculate_key_correlation returns for a profile, in
\* the order of the loop
Correlations64[pitch_profile \in Seq(Double)] ==
    Tup([n \in 1..Len(KeyOrder) |->
        calculate_key_correlation_float64(pitch_profile, KeyOrder[n][1], KeyOrder[n][2])])

\* the first position that holds the greatest of the doubles
FirstMaximal[correlations \in Seq(Double)] ==
    CHOOSE n \in 1..Len(correlations) :
        /\ \A m \in 1..Len(correlations) : FCmp(correlations[m], correlations[n]) <= 0
        /\ \A m \in 1..(n - 1) : FCmp(correlations[m], correlations[n]) < 0

\* the positions that hold the greatest of the doubles
Maximal[correlations \in Seq(Double)] ==
    {n \in 1..Len(correlations) :
        \A m \in 1..Len(correlations) : FCmp(correlations[m], correlations[n]) <= 0}

FirstOfTheBest[correlations \in Seq(Double), n \in Nat] ==
    [key |-> KeyOrder[n], correlation |-> correlations[n]]

\* C25: the search over the 24 keys returns a key whose correlation is the
\* greatest, with that correlation, and among several such keys the first in
\* the order root 0, 1, ..., 11, major before minor.
C25_BestKeyTieBreak ==
    (called # None /\ called.operation = "best_key" /\ called.result # None) =>
        called.result =
            FirstOfTheBest[Correlations64[Normalised(called.pitch_weights, called.total_weight)],
                           FirstMaximal[Correlations64[Normalised(called.pitch_weights,
                                                                  called.total_weight)]]]

\* the search has returned for a profile for which several keys reach the
\* greatest correlation, and the key returned is not the last of them
C25_Witness ==
    /\ called # None
    /\ called.operation = "best_key"
    /\ called.result # None
    /\ Cardinality(Maximal[Correlations64[Normalised(called.pitch_weights,
                                                     called.total_weight)]]) > 1
    /\ called.result.key = <<0, "major">>

(***************************************************************************)
(* The list of transitions as a chain                                      *)
(***************************************************************************)
\* C26: in the list that get_key_transitions() returns every transition
\* changes the key, starts from the key the transition before it led to and
\* is not earlier than it, and, between the calls, the last transition leads
\* to the current stable key.
C26_TransitionChain ==
    /\ \A k \in 1..Len(key_transitions) :
          key_transitions[k].from_key # key_transitions[k].to_key
    /\ \A k \in 2..Len(key_transitions) :
          /\ key_transitions[k].from_key = key_transitions[k - 1].to_key
          /\ key_transitions[k - 1].to_time <= key_transitions[k].to_time
    /\ (pc \in {"idle", "done"} /\ key_transitions # <<>>) =>
          key_transitions[Len(key_transitions)].to_key = current_stable_key

(***************************************************************************)
(* The timeline returned and the transitions recorded                      *)
(***************************************************************************)
\* the keys of the points of a timeline
TimelineKeys(points) == {PointKey(points[n]) : n \in 1..Len(points)}

\* C27: when the first call of analyze_by_measures has returned, the keys
\* that its transitions lead from and to are keys of points of the timeline
\* it returned.
C27_TransitionKeysInTimeline ==
    (pc = "done" /\ runs = 1) =>
        \A k \in 1..Len(key_transitions) :
            /\ key_transitions[k].from_key \in TimelineKeys(returned)
            /\ key_transitions[k].to_key \in TimelineKeys(returned)

\* the points whose key the smoothing pass has changed
Smoothed(points) == {n \in 1..Len(points) : points[n].analysis_method # "combined"}

\* C27, amended: the keys that the transitions of the first call lead from
\* and to are keys of points as they were appended and fed to the stability
\* tracker; when the call has returned, each of them is the key of a point of
\* the timeline returned unless the smoothing pass has changed points.
C27_TransitionKeysBeforeSmoothing ==
    /\ (pc = "analyze" /\ runs = 0) =>
          \A k \in 1..Len(key_transitions) :
              /\ key_transitions[k].from_key \in TimelineKeys(analysis_points)
              /\ key_transitions[k].to_key \in TimelineKeys(analysis_points)
    /\ (pc = "done" /\ runs = 1) =>
          \A k \in 1..Len(key_transitions) :
              /\ key_transitions[k].from_key \in TimelineKeys(returned)
                     \/ Smoothed(returned) # {}
              /\ key_transitions[k].to_key \in TimelineKeys(returned)
                     \/ Smoothed(returned) # {}

\* with the default stability threshold the call has returned a timeline
\* without A minor although a transition to A minor was recorded: the points
\* that were in A minor have been smoothed
C27_Witness ==
    /\ pc = "done"
    /\ runs = 1
    /\ stability_threshold = 3
    /\ \E k \in 1..Len(key_transitions) : key_transitions[k].to_key = <<9, "minor">>
    /\ <<9, "minor">> \notin TimelineKeys(returned)
    /\ Smoothed(returned) # {}

(***************************************************************************)
(* _calculate_measure_windows of the simplified analyzers of               *)
(* suggestions/suggestion_types.py and ui/suggestion_engine.py, on its own.*)
(* `called` names the analyzer; the loop index i counts from 0.            *)
(***************************************************************************)
MaxSimplifiedWindows == 13

SimplifiedAnalyzers == {"suggestions.suggestion_types", "ui.suggestion_engine"}

\* next((j for j, mt in enumerate(measure_times[i:]) if mt[1] >= target),
\* default) + i
NextFrom(times, n, target, default) ==
    LET found == FirstMeasureAtLeast(times, n, target)
    IN  IF found # None THEN found[1] ELSE default + n

\* the window that the iteration at index n appends, or None
SimplifiedWindowAt(times, n, window_measures, analyzer) ==
    LET window_start_time == times[n + 1][1]
        start_measure == times[n + 1][2]
        target_end_measure == start_measure * MeasureUnit + window_measures
        end_measure_index == NextFrom(times, n, target_end_measure, Len(times) - n - 1)
        last == Min2(end_measure_index, Len(times) - 1)
        end_time == times[last + 1][1]
    IN  IF ~(end_time > window_start_time) THEN None
        ELSE IF analyzer = "ui.suggestion_engine"
        THEN [start_time |-> window_start_time,
              end_time |-> end_time,
              start_measure |-> start_measure * MeasureUnit,
              end_measure |-> times[last + 1][2] * MeasureUnit,
              window_size_measures |-> window_measures,
              center_time |-> (window_start_time + end_time) \div 2]
        ELSE [start_time |-> window_start_time,
              end_time |-> end_time,
              start_measure |-> start_measure * MeasureUnit,
              center_time |-> (window_start_time + end_time) \div 2]

\* the index of the next iteration
SimplifiedNextIndex(times, n, step_measures) ==
    NextFrom(times, n, times[n + 1][2] * MeasureUnit + step_measures, Len(times) - n)

InitSimplified ==
    /\ document = EmptyDocument
    /\ \E cfg \in WindowConfigs : cfg.adaptive_window /\ Constructed(cfg)
    /\ pc = "simplified windows"
    /\ timing = MeasureLoopStart(EmptyDocument)
    /\ measure_times \in MeasureLists
    /\ windows = <<>>
    /\ i = 0
    /\ w = 0
    /\ returned = None
    /\ runs = 0
    /\ history = <<>>
    /\ classified = None
    /\ \E analyzer \in SimplifiedAnalyzers : called = [operation |-> analyzer]

\* one iteration of "while i < len(measure_times)"
SimplifiedWindowStep ==
    /\ pc = "simplified windows"
    /\ Len(measure_times) >= 2
    /\ i < Len(measure_times)
    /\ Len(windows) < MaxSimplifiedWindows
    /\ LET window_info == SimplifiedWindowAt(measure_times, i, base_window_measures,
                                             called.operation)
       IN  windows' = IF window_info = None THEN windows ELSE Append(windows, window_info)
    /\ i' = SimplifiedNextIndex(measure_times, i,
                                StepMeasures(base_window_measures, overlap_ratio))
    /\ UNCHANGED <<document, config, analysis_points, tracking, pc, timing, measure_times,
                   w, returned, runs, history, calls>>

\* the simplified _calculate_measure_windows returns
SimplifiedWindowsDone ==
    /\ pc = "simplified windows"
    /\ Len(measure_times) < 2 \/ ~(i < Len(measure_times))
    /\ pc' = "simplified windows done"
    /\ returned' = windows
    /\ UNCHANGED <<document, config, analysis_points, tracking, locals, runs, history,
                   calls>>

NextSimplified == SimplifiedWindowStep \/ SimplifiedWindowsDone

SpecSimplified == InitSimplified /\ [][NextSimplified]_vars

\* C28: for every overlap_ratio from 0.0 to 1.0 and every measure list of two
\* or more measures, each iteration of the loop of the simplified
\* _calculate_measure_windows moves the start index strictly forward, so that
\* the loop ends after at most len(measure_times) iterations.
C28_SimplifiedForwardProgress ==
    [][(pc = "simplified windows" /\ pc' = "simplified windows") => i' > i]_vars

(***************************************************************************)
(* The two correlator implementations side by side.                        *)
(***************************************************************************)
\* the template a correlator call selects
TemplateOf(mode) == IF mode = "major" THEN MAJOR_KEY_PROFILE ELSE MINOR_KEY_PROFILE

\* C29: for every 12-bin profile, root and mode, the list-based correlator
\* and the NumPy-based one correlate the profile against the same rotated
\* template, the one with the tonic weight at pitch class root, and return
\* the same correlation; so the list-based search over the 24 keys reports
\* the root that the NumPy-based search reports for the same profile.
C29_CorrelatorsAgree ==
    (called # None /\ called.result # None) =>
        /\ called.operation = "utility_correlate" =>
               /\ TemplateFrom(TemplateOf(called.mode), called.root)
                      = Roll(TemplateOf(called.mode), called.root)
               /\ TemplateFrom(TemplateOf(called.mode), called.root)[called.root + 1]
                      = TemplateOf(called.mode)[1]
               /\ CorrSame(called.result,
                           calculate_key_correlation(called.pitch_weights, called.root,
                                                     called.mode))
        /\ (called.operation = "analyze_key_context" /\ called.result.key # None) =>
               called.result.key[1]
                   = BestKey64(Normalised(called.pitch_weights,
                                          called.total_weight)).key[1]

(***************************************************************************)
(* The edit operations of core/midi_data.py on a document after add_track. *)
(* Times are in ticks; a note carries its selection flag; the document     *)
(* carries its clipboard; called is [operation, edits]: the last operation *)
(* and the number of operations so far.  Quantisation strength is in       *)
(* quarters.                                                               *)
(***************************************************************************)
MaxEdits == 3
MaxTrackNotes == 2

\* MidiNote(start, end, pitch, velocity, selected)
SelectableNote(start, end, pitch, velocity, selected) ==
    [start |-> MidiNote(start, end, pitch, velocity).start,
     end |-> MidiNote(start, end, pitch, velocity).end,
     pitch |-> MidiNote(start, end, pitch, velocity).pitch,
     velocity |-> MidiNote(start, end, pitch, velocity).velocity,
     selected |-> selected]

\* MidiNote.copy: a new note from the fields, not selected
CopyNote(note) == SelectableNote(note.start, note.end, note.pitch, note.velocity, FALSE)

\* round(start / grid_size): to the nearest integer, halves to the even one
RoundHalfEven(n, d) ==
    IF 2 * (n % d) < d THEN n \div d
    ELSE IF 2 * (n % d) > d THEN (n \div d) + 1
    ELSE IF (n \div d) % 2 = 0 THEN n \div d
    ELSE (n \div d) + 1

\* the body of the loop of quantize_notes for one note
QuantizedNote(note, grid_size, strength) ==
    [note EXCEPT !.start = note.start
                     + ((RoundHalfEven(note.start, grid_size) * grid_size - note.start)
                        * strength) \div 4]

\* MidiNote.transpose
TransposedNote(note, semitones) ==
    [note EXCEPT !.pitch = Max2(0, Min2(127, note.pitch + semitones))]

\* the note that paste_notes_at_time adds for a note of the clipboard
PastedNote(note, time_offset) ==
    [CopyNote(note) EXCEPT !.start = CopyNote(note).start + time_offset,
                           !.end = CopyNote(note).end + time_offset]

\* min(note.start for note in self.clipboard)
EarliestStart(clipboard) ==
    CHOOSE t \in {clipboard[k].start : k \in 1..Len(clipboard)} :
        \A k \in 1..Len(clipboard) : t <= clipboard[k].start

Applies(note, selected_only) == ~selected_only \/ note.selected

EditStarts == {16, 48}
EditDurations == {8, 16}
EditPitches == {0, 60, 127}
GridSizes == {0, 32, 64}
Strengths == {0, 2, 4, 8}
Semitones == {-12, 1, 100}
PasteTimes == {0, 32}

InitEdit ==
    /\ document = [tracks |-> <<Track(<<>>)>>, time_signatures |-> <<>>,
                   tempo_changes |-> <<>>, pm_key |-> None, clipboard |-> <<>>]
    /\ \E cfg \in AnalyzerConfigs :
          cfg.base_window_measures = 2 * MeasureUnit /\ Constructed(cfg)
    /\ pc = "idle"
    /\ NoLocals
    /\ returned = None
    /\ runs = 0
    /\ history = <<>>
    /\ classified = None
    /\ called = [operation |-> "MidiDocument", edits |-> 0]

\* an operation of the document returns with these notes in the track and
\* this clipboard
Edited(operation, notes, clipboard) ==
    /\ Len(notes) <= MaxTrackNotes
    /\ document' = [document EXCEPT !.tracks[1].notes = notes, !.clipboard = clipboard]
    /\ called' = [operation |-> operation, edits |-> called.edits + 1]
    /\ UNCHANGED <<config, analysis_points, tracking, pc, locals, returned, runs,
                   history, classified>>

\* MidiTrack.add_note with a note the constructor returned
AddNote ==
    /\ called.edits < MaxEdits
    /\ \E start \in EditStarts, duration \in EditDurations, pitch \in EditPitches,
          selected \in BOOLEAN :
           Edited("add_note",
                  Append(document.tracks[1].notes,
                         SelectableNote(start, start + duration, pitch, 64, selected)),
                  document.clipboard)

\* MidiTrack.transpose_notes
TransposeNotes ==
    /\ called.edits < MaxEdits
    /\ \E semitones \in Semitones, selected_only \in BOOLEAN :
           Edited("transpose_notes",
                  Tup([k \in 1..Len(document.tracks[1].notes) |->
                          IF Applies(document.tracks[1].notes[k], selected_only)
                          THEN TransposedNote(document.tracks[1].notes[k], semitones)
                          ELSE document.tracks[1].notes[k]]),
                  document.clipboard)

\* MidiTrack.quantize_notes; with grid size 0 the division raises
\* ZeroDivisionError at the first note it applies to
QuantizeNotes ==
    /\ called.edits < MaxEdits
    /\ \E grid_size \in GridSizes, strength \in Strengths, selected_only \in BOOLEAN :
           IF grid_size = 0
           THEN /\ \E k \in 1..Len(document.tracks[1].notes) :
                      Applies(document.tracks[1].notes[k], selected_only)
                /\ Edited("quantize_notes raises ZeroDivisionError",
                          document.tracks[1].notes, document.clipboard)
           ELSE Edited("quantize_notes",
                       Tup([k \in 1..Len(document.tracks[1].notes) |->
                               IF Applies(document.tracks[1].notes[k], selected_only)
                               THEN QuantizedNote(document.tracks[1].notes[k], grid_size,
                                                  strength)
                               ELSE document.tracks[1].notes[k]]),
                       document.clipboard)

\* MidiDocument.copy_selected_notes
CopySelectedNotes ==
    /\ called.edits < MaxEdits
    /\ Edited("copy_selected_notes", document.tracks[1].notes,
              Tup([k \in 1..Cardinality({n \in 1..Len(document.tracks[1].notes) :
                                            document.tracks[1].notes[n].selected}) |->
                      CopyNote(document.tracks[1].notes[
                          CHOOSE n \in 1..Len(document.tracks[1].notes) :
                              /\ document.tracks[1].notes[n].selected
                              /\ Cardinality({m \in 1..n :
                                     document.tracks[1].notes[m].selected}) = k])]))

\* MidiDocument.paste_notes_at_time with time >= 0 and the default track
PasteNotesAtTime ==
    /\ called.edits < MaxEdits
    /\ \E time \in PasteTimes :
           IF document.clipboard = <<>>
           THEN Edited("paste_notes_at_time", document.tracks[1].notes, document.clipboard)
           ELSE Edited("paste_notes_at_time",
                       document.tracks[1].notes
                           \o Tup([k \in 1..Len(document.clipboard) |->
                                      PastedNote(document.clipboard[k],
                                                 time - EarliestStart(document.clipboard))]),
                       document.clipboard)

NextEdit == AddNote \/ TransposeNotes \/ QuantizeNotes \/ CopySelectedNotes \/ PasteNotesAtTime

SpecEdit == InitEdit /\ [][NextEdit]_vars

\* C30: after construction and after any sequence of add_note,
\* transpose_notes, quantize_notes, copy and paste_notes_at_time with
\* time >= 0, every note of the document has 0 <= pitch <= 127,
\* 0 <= velocity <= 127, start >= 0 and end >= start.
C30_NoteWellFormedness ==
    \A k \in 1..Len(AllNotes(document.tracks)) :
        LET note == AllNotes(document.tracks)[k]
        IN  /\ 0 <= note.pitch /\ note.pitch <= 127
            /\ 0 <= note.velocity /\ note.velocity <= 127
            /\ note.start >= 0
            /\ note.end >= note.start

====
